---- MODULE Spec2Model ----
(***************************************************************************)
(* Distributor integration layer of mw-bi-suite: the session store and the *)
(* base adapter (app/services/distributor_client.py), the platform         *)
(* adapters (app/services/clients/*.py) and the parallel search aggregator *)
(* (app/services/search_aggregator.py).                                    *)
(*                                                                         *)
(* The module holds several specifications over one list of variables;     *)
(* each specification drives one component and leaves the variables of the *)
(* others at their initial values:                                         *)
(*   SpecStore    the session store (_save_session, _clear_session)        *)
(*   SpecSession  ensure_authenticated and the authenticate() of every     *)
(*                adapter                                                  *)
(*   SpecFarm     the heartbeat adapter (FarmDirectClient)                 *)
(*   SpecOrder    the order-first adapters (GreenMarketClient and the      *)
(*                order handling of ValleyFoodsClient)                     *)
(*   SpecAgg      SearchAggregator.search_all                              *)
(*                                                                         *)
(* Time is counted in minutes.  None of Python is the string "null" for    *)
(* opaque values and NullTime for timestamps.                              *)
(***************************************************************************)
EXTENDS Integers, Sequences, FiniteSets, TLC

VARIABLES
    now,          \* datetime.utcnow() / time.time(), in minutes
    store,        \* the distributor_sessions row of the distributor
    platform,     \* Distributor.platform_id of the distributor ("mock": none)
    lastSave,     \* the arguments of the last _save_session call made directly
    lastEnsure,   \* the last ensure_authenticated call: what it found and did
    lastAuth,     \* the last authenticate() call: result, saves made, steps tried
    ensureStreak, \* consecutive ensure_authenticated calls, capped at 2
    \* FarmDirectClient
    farmPc,       \* where the running operation stands ("idle": none running)
    farmOp,       \* the running operation: search, add_to_cart or get_cart
    lastActivity, \* self._last_activity
    farmDepth,    \* how many times the running operation has called itself
    farmCall,     \* what the running (or last) operation has done so far
    farmFresh,    \* what the last _ensure_session_fresh of the operation did
    \* the order-first adapters
    orderId,      \* self._current_order_id / self._active_order_id
    serverOrders, \* the orders the platform holds for the customer
    addCalls,     \* add_to_cart calls made on the adapter
    lastAdd,      \* what the add_to_cart call did, when it was the last call
    lastCart,     \* what the get_cart or clear_cart call did, when it was the last
    \* SearchAggregator
    distributors, \* the distributors table: is_active, ordering_enabled
    aggPc,        \* where search_all stands
    distributorIds, \* the distributor_ids argument
    queried,      \* the rows the distributor query returned, in its order
    tasks,        \* the _search_distributor task of every distributor
    calls,        \* the calls made for every distributor
    completed,    \* the distributors whose task has finished, first finished first
    output,       \* the "distributors" list search_all returns
    \* two callers of _save_session, each with its adapter and database session
    table,        \* the rows of distributor_sessions of the distributor
    racePc,       \* where the _save_session call of every caller stands
    raceCached,   \* self._session of every caller: the id of the row it holds
    raceArgs,     \* the arguments of the _save_session call of every caller
    raceSaves,    \* the _save_session calls every caller has made
    \* search(query, limit) of one adapter
    searchArgs,   \* the adapter, the limit and the answer of the platform
    searchResult, \* what search returned
    \* one _search_distributor task, its adapter and the session store
    taskPc,       \* where the task stands
    taskClient,   \* self._http_client of the adapter: the cookies it was made with
    taskLog,      \* what the task and its adapter have done
    taskRun,      \* the try and except blocks of the task, as in tasks
    \* remove_from_cart(sku) of one adapter
    cartArgs,     \* the adapter, the cart the platform holds, the sku, the answers
    cartResult,   \* what remove_from_cart did and the cart it left
    \* _normalize_result of one adapter SearchResult
    normArgs,     \* pack_size and price_cents of the SearchResult
    normResult,   \* what _normalize_result returned
    \* one call of the cost calculator on the recipes of the database
    costArgs,     \* the recipes, their ingredients and components, the call
    costResult    \* how the call ended

sessionVars == <<now, store, platform, lastSave, lastEnsure, lastAuth, ensureStreak>>
farmVars == <<farmPc, farmOp, lastActivity, farmDepth, farmCall, farmFresh>>
orderVars == <<orderId, serverOrders, addCalls, lastAdd, lastCart>>
aggVars == <<distributors, aggPc, distributorIds, queried, tasks, calls, completed,
            output>>
raceVars == <<table, racePc, raceCached, raceArgs, raceSaves>>
searchVars == <<searchArgs, searchResult>>
taskVars == <<taskPc, taskClient, taskLog, taskRun>>
cartVars == <<cartArgs, cartResult>>
normVars == <<normArgs, normResult>>
costVars == <<costArgs, costResult>>
restVars == <<searchVars, taskVars, cartVars, normVars, costVars>>
oldVars == <<sessionVars, farmVars, orderVars, aggVars, raceVars>>
vars == <<oldVars, restVars>>

\* ------------------------------------------------------------------ bounds

\* the clock and the expiry arguments of SpecStore
MaxStoreTime == 2
\* the clock of SpecSession
MaxSessionTime == 2
\* rows of the distributors table
NumDistributors == 2
\* add_to_cart calls made on one order-first adapter
MaxAdds == 3
\* the clock of SpecFarm
MaxFarmTime == 4
\* _save_session calls of one caller
MaxRaceSaves == 2
\* the recursion limit of the interpreter, counted in calls of an operation
\* to itself
RecursionLimit == 3

\* ------------------------------------------------------- program constants

\* timedelta(minutes=5): the session lifetime FarmDirectClient.authenticate saves
FARM_SESSION_MINUTES == 5
\* HEARTBEAT_INTERVAL = 120 seconds
HEARTBEAT_INTERVAL == 2

\* ------------------------------------------------------------ session store

Null == "null"
NullTime == -1

\* A row of distributor_sessions; exists = FALSE is "no row for this distributor".
AbsentSession ==
    [exists |-> FALSE, cookies |-> Null, headers |-> Null, auth_token |-> Null,
     expires_at |-> NullTime, last_used_at |-> NullTime]

\* DistributorSession.is_expired at time t
IsExpired(s, t) ==
    IF s.expires_at = NullTime THEN FALSE ELSE t > s.expires_at

\* _save_session with "if cookies:" in place of "if cookies is not None:", and
\* so for headers and auth_token
SaveSessionFalsy(s, a, t) ==
    [exists       |-> TRUE,
     cookies      |-> IF a.cookies \notin {Null, "{}"} THEN a.cookies ELSE s.cookies,
     headers      |-> IF a.headers \notin {Null, "{}"} THEN a.headers ELSE s.headers,
     auth_token   |-> IF a.auth_token \notin {Null, ""} THEN a.auth_token ELSE s.auth_token,
     expires_at   |-> IF a.expires_at # NullTime THEN a.expires_at ELSE s.expires_at,
     last_used_at |-> t]

\* The row after _save_session(cookies, headers, auth_token, expires_at) at time t
SaveSession(s, a, t) ==
    [exists       |-> TRUE,
     cookies      |-> IF a.cookies # Null THEN a.cookies ELSE s.cookies,
     headers      |-> IF a.headers # Null THEN a.headers ELSE s.headers,
     auth_token   |-> IF a.auth_token # Null THEN a.auth_token ELSE s.auth_token,
     expires_at   |-> IF a.expires_at # NullTime THEN a.expires_at ELSE s.expires_at,
     last_used_at |-> t]

\* Keyword arguments of _save_session; an argument left out is None.
SaveArgs(c, h, tok, e) ==
    [cookies |-> c, headers |-> h, auth_token |-> tok, expires_at |-> e]

\* The row after _clear_session
ClearSession(s) == AbsentSession

\* _load_session: the row of this distributor, as the query returns it.  The
\* adapter caches the mapped row object in self._session; _save_session updates
\* that same object and _clear_session drops it, so one adapter always reads
\* the stored row.
LoadSession(s) == s

\* ------------------------------------------------------------- authenticate
\* What the platform, the credential store and the token file answer is not
\* the program's to decide: authenticate() is modelled as the set of outcomes
\* it can end with, one for every answer it can read.

Platforms == {"mock", "farmdirect", "greenmarket", "metrowholesale", "valleyfoods"}

\* timedelta(hours=24), in minutes
DAY_MINUTES == 1440

\* An authenticate() whose "except Exception" clause re-raises what the HTTP
\* client raised
AuthEndReraises(ok, cause) ==
    IF ok THEN "return_true"
    ELSE IF cause = "exception" THEN "raise" ELSE "return_false"

\* How an authenticate() call ends for its caller. The login and token requests
\* sit in a try block whose "except Exception" clause logs and returns False
\* (get_secret and _load_token_file do the same with None), so a call ends with
\* "return True" or "return False" whatever decided the failure.
AuthEnd(ok, cause) == IF ok THEN "return_true" ELSE "return_false"

\* What an authenticate() call did: its return value, the row it left, the
\* number of _save_session calls it made, the chain steps it attempted and
\* what decided the result.
AuthOutcome(ok, s, saves, steps, cause) ==
    [ok |-> ok, store |-> s, saves |-> saves, steps |-> steps, cause |-> cause,
     ending |-> AuthEnd(ok, cause)]

\* The cookie jar of the login client after the login request
JarVals == {"{}", "ck_b"}

\* Why a login of the one-request adapters fails:
\*   no_credentials  get_credentials() returned None
\*   missing_field   the credentials lack email or password
\*   rejected        the platform answered with a failure status
\*   exception       the HTTP client raised
LoginFailures == {"no_credentials", "missing_field", "rejected", "exception"}

\* MockDistributorClient.authenticate
AuthenticateMock(s, t) ==
    {AuthOutcome(TRUE, SaveSession(s, SaveArgs("ck_mock", Null, Null, t), t),
                 1, <<>>, "ok")}

\* FarmDirectClient.authenticate
AuthenticateFarm(s, t) ==
    {AuthOutcome(TRUE,
        SaveSession(s, SaveArgs(jar, Null, Null, t + FARM_SESSION_MINUTES), t),
        1, <<>>, "ok") : jar \in JarVals}
    \cup {AuthOutcome(FALSE, s, 0, <<>>, f) : f \in LoginFailures}

\* GreenMarketClient.authenticate; "no_csrf": the login page held no CSRF
\* token, and no login request is sent.
AuthenticateGreen(s, t) ==
    {AuthOutcome(TRUE,
        SaveSession(s, SaveArgs(jar, Null, Null, t + DAY_MINUTES), t),
        1, <<>>, "ok") : jar \in JarVals}
    \cup {AuthOutcome(FALSE, s, 0, <<>>, f) : f \in LoginFailures \cup {"no_csrf"}}

\* MetroWholesaleClient.authenticate without the _save_session of its
\* no-auth-cookie branch
AuthenticateMetroNoSave(s, t) ==
    {AuthOutcome(TRUE,
        SaveSession(s, SaveArgs(jar, Null, Null, t + DAY_MINUTES), t),
        1, <<>>, "ok") : jar \in JarVals}
    \cup {AuthOutcome(TRUE, s, 0, <<>>, "ok_no_auth_cookie")}
    \cup {AuthOutcome(FALSE, s, 0, <<>>, f) : f \in LoginFailures}

\* MetroWholesaleClient.authenticate; "ok_no_auth_cookie": status 200 but no
\* Application/cwUser cookie in the jar, which is saved and reported as success
\* all the same.
AuthenticateMetro(s, t) ==
    {AuthOutcome(TRUE,
        SaveSession(s, SaveArgs(jar, Null, Null, t + DAY_MINUTES), t),
        1, <<>>, c) : jar \in JarVals, c \in {"ok", "ok_no_auth_cookie"}}
    \cup {AuthOutcome(FALSE, s, 0, <<>>, f) : f \in LoginFailures}

\* ValleyFoodsClient: the authentication chain.
\* _refresh_access_token fails one of three ways:
RefreshFailures == {"no_access_token", "non200", "exception"}

\* expires_in of a token response, in minutes (3600 s by default); the code
\* saves expires_at = utcnow() + expires_in - 60 s.
ExpiresInVals == {1, 60}
REFRESH_MARGIN == 1

\* A 200 token response: expires_in and refresh_token (Null: it carries none
\* and the one sent is kept).
TokenResponses == [expires_in : ExpiresInVals, refresh_token : {Null, "rt_b"}]

HasRefreshToken(h) == h \in {"rt_a", "rt_b"}

\* One step of the chain: whether it was attempted, whether it succeeded, the
\* saves it made, whether a request of it raised, and the row it left.
StepResult(tried, ok, saves, raised, s) ==
    [tried |-> tried, ok |-> ok, saves |-> saves, raised |-> raised, store |-> s]

\* _refresh_access_token(sent)
RefreshAccessToken(s, t, sent) ==
    {StepResult(TRUE, TRUE, 1, FALSE,
        SaveSession(s,
            SaveArgs(Null,
                     IF r.refresh_token = Null THEN sent ELSE r.refresh_token,
                     "Bearer a",
                     t + r.expires_in - REFRESH_MARGIN),
            t)) : r \in TokenResponses}
    \cup {StepResult(TRUE, FALSE, 0, f = "exception", s) : f \in RefreshFailures}

\* get_credentials(): the refresh token (Null: none) and whether email and
\* password are there
Credentials == [refresh_token : {Null, "rt_a"}, login : BOOLEAN]

\* The token file of a browser capture (_load_token_file and the checks on it):
\*   none    no token_file_path, no file, or unreadable
\*   valid   captured_at parses and age < expires_in - 60 s
\*   stale   captured_at missing, unparseable, or the token is too old
\* and the refresh_token it holds (Null: none).
TokenFiles ==
    {[state |-> "none", refresh_token |-> Null]}
    \cup [state : {"valid", "stale"}, refresh_token : {Null, "rt_a"}]

\* 1. the refresh token of the stored session
ValleySessionRefresh(s, t) ==
    IF LoadSession(s).exists /\ HasRefreshToken(LoadSession(s).headers)
    THEN RefreshAccessToken(s, t, LoadSession(s).headers)
    ELSE {StepResult(FALSE, FALSE, 0, FALSE, s)}

\* 2. the refresh token of the credential store
ValleyCredentialRefresh(s, t, cred) ==
    IF cred.refresh_token # Null
    THEN RefreshAccessToken(s, t, cred.refresh_token)
    ELSE {StepResult(FALSE, FALSE, 0, FALSE, s)}

\* 3. the token file: used as it is while valid, refreshed when stale
ValleyTokenFile(s, t, file) ==
    CASE file.state = "valid" ->
            {StepResult(TRUE, TRUE, 1, FALSE,
                SaveSession(s,
                    SaveArgs(Null, file.refresh_token, "Bearer a", t + left), t)) :
                left \in ExpiresInVals}
      [] file.state = "stale" /\ file.refresh_token # Null ->
            RefreshAccessToken(s, t, file.refresh_token)
      [] file.state = "stale" /\ file.refresh_token = Null ->
            {StepResult(TRUE, FALSE, 0, FALSE, s)}
      [] OTHER -> {StepResult(FALSE, FALSE, 0, FALSE, s)}

\* _browser_auto_login
BrowserAutoLogin(email, password) == FALSE

\* 4. the browser login, when the credentials hold email and password
ValleyBrowserLogin(s, cred) ==
    IF cred.login
    THEN {StepResult(TRUE, BrowserAutoLogin("email", "password"), 0, FALSE, s)}
    ELSE {StepResult(FALSE, FALSE, 0, FALSE, s)}

\* The trace of the chain: the steps attempted, in the order of their attempts,
\* each with what it returned
Attempted(steps, a, name) ==
    IF a.tried THEN Append(steps, [name |-> name, ok |-> a.ok]) ELSE steps

ChainDone(a, steps, raised) ==
    AuthOutcome(a.ok, a.store, a.saves, steps,
                IF a.ok THEN "ok" ELSE IF raised THEN "exception" ELSE "rejected")

ChainFromBrowserLogin(s, cred, steps, raised) ==
    {ChainDone(a, Attempted(steps, a, "browser_login"), raised) :
        a \in ValleyBrowserLogin(s, cred)}

ChainFromTokenFile(s, t, cred, steps, raised) ==
    UNION {UNION {IF a.ok
                  THEN {ChainDone(a, Attempted(steps, a, "token_file"), raised)}
                  ELSE ChainFromBrowserLogin(s, cred,
                           Attempted(steps, a, "token_file"), raised \/ a.raised) :
                  a \in ValleyTokenFile(s, t, file)} :
           file \in TokenFiles}

ChainFromCredentialRefresh(s, t, steps, raised) ==
    UNION {UNION {IF a.ok
                  THEN {ChainDone(a, Attempted(steps, a, "credential_refresh"), raised)}
                  ELSE ChainFromTokenFile(s, t, cred,
                           Attempted(steps, a, "credential_refresh"),
                           raised \/ a.raised) :
                  a \in ValleyCredentialRefresh(s, t, cred)} :
           cred \in Credentials}

\* A ValleyFoodsClient.authenticate that goes on to the credential store after
\* the refresh token of the stored session was accepted
AuthenticateValleyFallsThrough(s, t) ==
    UNION {ChainFromCredentialRefresh(a.store, t,
               Attempted(<<>>, a, "session_refresh"), a.raised) :
           a \in ValleySessionRefresh(s, t)}

\* ValleyFoodsClient.authenticate
AuthenticateValley(s, t) ==
    UNION {IF a.ok
           THEN {ChainDone(a, Attempted(<<>>, a, "session_refresh"), FALSE)}
           ELSE ChainFromCredentialRefresh(s, t,
                    Attempted(<<>>, a, "session_refresh"), a.raised) :
           a \in ValleySessionRefresh(s, t)}

\* authenticate() of the adapter get_distributor_client returns for platform p
Authenticate(p, s, t) ==
    CASE p = "farmdirect"     -> AuthenticateFarm(s, t)
      [] p = "greenmarket"    -> AuthenticateGreen(s, t)
      [] p = "metrowholesale" -> AuthenticateMetro(s, t)
      [] p = "valleyfoods"    -> AuthenticateValley(s, t)
      [] OTHER                -> AuthenticateMock(s, t)

\* ------------------------------------------------------- ensure_authenticated

EnsureResult(result, s, authCalls, a) ==
    [result |-> result, store |-> s, authCalls |-> authCalls, auth |-> a]

\* the auth field of a call that made no authenticate() call
NoAuthOutcome == AuthOutcome(FALSE, AbsentSession, 0, <<>>, "none")

\* ensure_authenticated without its test of the stored session
EnsureAlwaysAuthenticates(p, s, t) ==
    {EnsureResult(a.ok, a.store, 1, a) : a \in Authenticate(p, s, t)}

\* ensure_authenticated with "if session:" in place of
\* "if session and not session.is_expired:"
EnsureIgnoresExpiry(p, s, t) ==
    IF LoadSession(s).exists
    THEN {EnsureResult(TRUE, s, 0, NoAuthOutcome)}
    ELSE {EnsureResult(a.ok, a.store, 1, a) : a \in Authenticate(p, s, t)}

\* DistributorApiClient.ensure_authenticated at time t on platform p: the
\* outcomes it can end with.
EnsureAuthenticated(p, s, t) ==
    LET session == LoadSession(s)
    IN  IF session.exists /\ ~IsExpired(session, t)
        THEN {EnsureResult(TRUE, s, 0, NoAuthOutcome)}
        ELSE {EnsureResult(a.ok, a.store, 1, a) : a \in Authenticate(p, s, t)}

\* ------------------------------------------------------------ bookkeeping

NoSave == [called |-> FALSE, args |-> SaveArgs(Null, Null, Null, NullTime),
           before |-> AbsentSession]

NoEnsure == [called |-> FALSE, hadRow |-> FALSE, expiry |-> NullTime, at |-> 0,
             authCalls |-> 0, result |-> FALSE, authOk |-> FALSE,
             unchanged |-> TRUE]

NoAuth == [called |-> FALSE, ok |-> FALSE, saves |-> 0, at |-> 0,
           rowExists |-> FALSE, rowWrittenAt |-> NullTime, steps |-> <<>>,
           cause |-> "none", ending |-> "none", unchanged |-> TRUE]

AuthRecord(a, s, t) ==
    [called |-> TRUE, ok |-> a.ok, saves |-> a.saves, at |-> t,
     rowExists |-> a.store.exists, rowWrittenAt |-> a.store.last_used_at,
     steps |-> a.steps, cause |-> a.cause, ending |-> a.ending,
     unchanged |-> (a.store = s)]

\* ------------------------------------------- components a specification leaves alone

\* ids of the rows of the distributors table
Distributors == 1 .. NumDistributors

\* self._last_activity = 0 of a new adapter: longer ago than any interval
NeverActive == 0 - (HEARTBEAT_INTERVAL + 1)

\* What an operation has done: the substantive requests, the authenticate()
\* calls and the heartbeat requests it made, and what it returned. Of the
\* authenticate() calls: those ensure_authenticated made (viaEnsure), those
\* _ensure_session_fresh made itself after _heartbeat returned False
\* (afterHeartbeat) and those _handle_session_error_data made on a
\* session-timeout answer (afterTimeout); failedHeartbeats and timeoutAnswers
\* count the events these follow; answer is the answer to the last request.
NoFarmCall == [requests |-> 0, auths |-> 0, heartbeats |-> 0, result |-> "none",
               answer |-> "none",
               viaEnsure |-> 0, afterHeartbeat |-> 0, afterTimeout |-> 0,
               failedHeartbeats |-> 0, timeoutAnswers |-> 0]

\* What an _ensure_session_fresh did: whether the adapter had been idle for
\* more than the interval and since when, the heartbeat requests sent, the
\* answer to the heartbeat, the authenticate() calls made before the heartbeat
\* request (by ensure_authenticated) and after it, and what it returned.
NoFresh == [idle |-> FALSE, since |-> 0, heartbeats |-> 0, answer |-> "none",
            authsBefore |-> 0, authsAfter |-> 0, result |-> TRUE]

FarmAtRest ==
    /\ farmPc = "idle"
    /\ farmOp = "none"
    /\ lastActivity = NeverActive
    /\ farmDepth = 0
    /\ farmCall = NoFarmCall
    /\ farmFresh = NoFresh

\* No order id (None)
NoOrder == 0

\* An add_to_cart call: the order id the adapter held and the orders the
\* platform held when it began, whether it got as far as the order, the
\* active-order lookups and the create-order requests it sent, whether the
\* lookup found an order, whether the item was posted and to which order, and
\* what it returned.
NoAdd == [called |-> FALSE, idBefore |-> NoOrder, ordersBefore |-> 0,
          reachedOrder |-> FALSE, lookups |-> 0, found |-> FALSE, creates |-> 0,
          posted |-> FALSE, target |-> NoOrder, result |-> "none"]

\* A get_cart or clear_cart call: the order id the adapter held and the orders
\* the platform held when it began, the active-order lookups and the other
\* requests it sent, the cart it read ("none": it read none), what it returned
\* and whether it ended by raising.
NoCart == [called |-> FALSE, op |-> "none", idBefore |-> NoOrder,
           ordersBefore |-> 0, lookups |-> 0, requests |-> 0, cart |-> "none",
           result |-> "none", raised |-> FALSE]

OrderAtRest ==
    /\ orderId = NoOrder
    /\ serverOrders = {}
    /\ addCalls = 0
    /\ lastAdd = NoAdd
    /\ lastCart = NoCart

\* distributor_ids = None
NoIds == [given |-> FALSE, ids |-> {}]

\* A _search_distributor task: where it stands, the call of its try block that
\* raised, what the live API answered the search request ("none": no request
\* was sent), how the fallback query went, the results it returns and the
\* exception it ends with (Null: none).
NoTask == [pc |-> "none", raised |-> "none", live |-> "none", fallback |-> "none",
           results |-> "none", error |-> Null]

AggAtRest ==
    /\ distributors = [d \in Distributors |-> [is_active |-> TRUE, ordering_enabled |-> TRUE]]
    /\ aggPc = "idle"
    /\ distributorIds = NoIds
    /\ queried = <<>>
    /\ tasks = [d \in Distributors |-> NoTask]
    /\ calls = [d \in Distributors |-> {}]
    /\ completed = <<>>
    /\ output = <<>>

\* The two callers of SpecRace, and "no row" (self._session = None; .first()
\* found nothing). A row id is the caller that inserted the row and the number
\* of its save.
Callers == {"a", "b"}
NoRow == <<>>

RaceAtRest ==
    /\ table = {}
    /\ racePc = [c \in Callers |-> "idle"]
    /\ raceCached = [c \in Callers |-> NoRow]
    /\ raceArgs = [c \in Callers |-> SaveArgs(Null, Null, Null, NullTime)]
    /\ raceSaves = [c \in Callers |-> 0]

\* No adapter at work on the session store
SessionAtRest ==
    /\ now = 0
    /\ store = AbsentSession
    /\ platform = "mock"
    /\ lastSave = NoSave
    /\ lastEnsure = NoEnsure
    /\ lastAuth = NoAuth
    /\ ensureStreak = 0

\* search(query, limit) not called: no adapter, no answer, nothing returned
NoSearchArgs ==
    [adapter |-> "none", limit |-> 0,
     response |-> [kind |-> "none", items |-> <<>>]]

NoSearchResult == [called |-> FALSE, asked |-> 0, raised |-> FALSE, results |-> <<>>]

SearchAtRest ==
    /\ searchArgs = NoSearchArgs
    /\ searchResult = NoSearchResult

\* No task under way: no adapter made, no call of it
NoTaskLog ==
    [ensure |-> "none", gate |-> "none", auths |-> <<>>, requests |-> 0,
     opened |-> 0, closed |-> 0, closeCalls |-> 0, reauthed |-> FALSE,
     sentWith |-> "none", storedAtSend |-> "none"]

TaskAtRest ==
    /\ taskPc = "idle"
    /\ taskClient = "none"
    /\ taskLog = NoTaskLog
    /\ taskRun = NoTask

\* The SKUs a cart can hold, and the cart without a line
Skus == {"a", "b", "c"}
EmptyCart == [k \in Skus |-> 0]

\* remove_from_cart not called
NoCartArgs ==
    [adapter |-> "none", cart |-> EmptyCart, sku |-> "a", reading |-> "ok",
     removal |-> "ok", adding |-> "ok"]

NoCartResult ==
    [called |-> FALSE, result |-> FALSE, cart |-> EmptyCart, clears |-> 0,
     adds |-> 0]

CartAtRest ==
    /\ cartArgs = NoCartArgs
    /\ cartResult = NoCartResult

\* _normalize_result not called
\* price_cents None, price_per_base_unit_cents None
NoPrice == -1

\* pack_size None
NoPackSize == [text |-> "none", count |-> 0, size |-> 0, unit |-> "none"]

NoNormArgs == [pack_size |-> NoPackSize, price_cents |-> NoPrice]

NoNormResult ==
    [called |-> FALSE, raised |-> FALSE, parsed |-> FALSE,
     price_per_base_unit_cents |-> NoPrice]

NormAtRest ==
    /\ normArgs = NoNormArgs
    /\ normResult = NoNormResult

\* The recipes of the database
Recipes == {"r1", "r2"}

\* The cost calculator not called, on recipes without ingredients
NoCostArgs ==
    [comp |-> [r \in Recipes |-> {}], uses |-> [r \in Recipes |-> {}],
     rawPriced |-> FALSE, call |-> "none", root |-> "r1"]

NoCostResult == [called |-> FALSE, end |-> "none", priced |-> FALSE]

CostAtRest ==
    /\ costArgs = NoCostArgs
    /\ costResult = NoCostResult

PureAtRest == NormAtRest /\ CostAtRest

RestAtRest == SearchAtRest /\ TaskAtRest /\ CartAtRest /\ PureAtRest

\* ---------------------------------------------- SpecStore: the session store

\* Arguments the store is driven with
StoreCookieVals == {Null, "{}", "ck_a"}
StoreHeaderVals == {Null, "rt_a"}
StoreTokenVals  == {Null, "", "Bearer a"}
StoreTimeVals   == {NullTime, 0, MaxStoreTime}

StoreInit ==
    /\ now = 0
    /\ store = AbsentSession
    /\ platform = "mock"
    /\ lastSave = NoSave
    /\ lastEnsure = NoEnsure
    /\ lastAuth = NoAuth
    /\ ensureStreak = 0
    /\ FarmAtRest /\ OrderAtRest /\ AggAtRest /\ RaceAtRest /\ RestAtRest

\* saveSession: a direct _save_session call
StoreSave ==
    \E c \in StoreCookieVals, h \in StoreHeaderVals,
       tok \in StoreTokenVals, e \in StoreTimeVals :
        /\ store' = SaveSession(LoadSession(store), SaveArgs(c, h, tok, e), now)
        /\ lastSave' = [called |-> TRUE, args |-> SaveArgs(c, h, tok, e),
                        before |-> store]
        /\ UNCHANGED <<now, platform, lastEnsure, lastAuth, ensureStreak>>
        /\ UNCHANGED <<farmVars, orderVars, aggVars, raceVars, restVars>>

\* deleteSession: _clear_session
StoreClear ==
    /\ LoadSession(store).exists
    /\ store' = ClearSession(store)
    /\ lastSave' = NoSave
    /\ UNCHANGED <<now, platform, lastEnsure, lastAuth, ensureStreak>>
    /\ UNCHANGED <<farmVars, orderVars, aggVars, raceVars, restVars>>

\* The clock advances
Tick ==
    /\ now' = now + 1
    /\ UNCHANGED <<store, platform, lastSave, lastEnsure, lastAuth, ensureStreak>>

StoreTick ==
    /\ now < MaxStoreTime
    /\ Tick
    /\ UNCHANGED <<farmVars, orderVars, aggVars, raceVars, restVars>>

StoreNext == StoreSave \/ StoreClear \/ StoreTick

SpecStore == StoreInit /\ [][StoreNext]_vars

\* C9: after every saveSession, getSession returns a session in which each
\* provided field (cookies, headers, auth_token, expires_at) equals the provided
\* value and each field not provided (None) has the value it had before the
\* save, whatever saves came before.
C9_SaveThenGetRoundTrip ==
    lastSave.called =>
        LET got == LoadSession(store)
            a == lastSave.args
            prior == lastSave.before
        IN  /\ got.exists
            /\ got.cookies = (IF a.cookies # Null THEN a.cookies ELSE prior.cookies)
            /\ got.headers = (IF a.headers # Null THEN a.headers ELSE prior.headers)
            /\ got.auth_token =
                   (IF a.auth_token # Null THEN a.auth_token ELSE prior.auth_token)
            /\ got.expires_at =
                   (IF a.expires_at # NullTime THEN a.expires_at ELSE prior.expires_at)

\* C9 happens: a save over an existing row that provides an empty cookie dict
\* and an empty token and leaves headers and expiry out, the row keeping the
\* headers and the expiry an earlier save gave it.
C9_Witness ==
    /\ lastSave.called
    /\ lastSave.before.exists
    /\ lastSave.args.cookies = "{}"
    /\ lastSave.args.auth_token = ""
    /\ lastSave.args.headers = Null
    /\ lastSave.args.expires_at = NullTime
    /\ lastSave.before.cookies = "ck_a"
    /\ store.cookies = "{}"
    /\ store.headers = "rt_a"
    /\ store.expires_at = MaxStoreTime


\* ------------------------- SpecSession: ensure_authenticated and authenticate

\* Rows an earlier run can have left: only the multi-step adapter saves headers.
InitRows(p) ==
    {AbsentSession} \cup
    {[exists |-> TRUE, cookies |-> "ck_a", headers |-> h, auth_token |-> Null,
      expires_at |-> e, last_used_at |-> 0] :
        h \in (IF p = "valleyfoods" THEN {Null, "rt_a"} ELSE {Null}),
        e \in {NullTime, 0, 1}}

SessionInit ==
    /\ now = 0
    /\ platform \in Platforms
    /\ store \in InitRows(platform)
    /\ lastSave = NoSave
    /\ lastEnsure = NoEnsure
    /\ lastAuth = NoAuth
    /\ ensureStreak = 0
    /\ FarmAtRest /\ OrderAtRest /\ AggAtRest /\ RaceAtRest /\ RestAtRest

\* A caller awaits ensure_authenticated()
EnsureAuthenticatedCall ==
    \E r \in EnsureAuthenticated(platform, store, now) :
        /\ store' = r.store
        /\ lastEnsure' = [called |-> TRUE, hadRow |-> store.exists,
                          expiry |-> store.expires_at, at |-> now,
                          authCalls |-> r.authCalls, result |-> r.result,
                          authOk |-> (r.authCalls = 1 /\ r.auth.ok),
                          unchanged |-> (r.store = store)]
        /\ lastAuth' = IF r.authCalls = 1 THEN AuthRecord(r.auth, store, now) ELSE lastAuth
        /\ ensureStreak' = IF ensureStreak < 2 THEN ensureStreak + 1 ELSE 2
        /\ UNCHANGED <<now, platform, lastSave>>
        /\ UNCHANGED <<farmVars, orderVars, aggVars, raceVars, restVars>>

\* A caller awaits authenticate() itself
AuthenticateCall ==
    \E a \in Authenticate(platform, store, now) :
        /\ store' = a.store
        /\ lastAuth' = AuthRecord(a, store, now)
        /\ lastEnsure' = NoEnsure
        /\ ensureStreak' = 0
        /\ UNCHANGED <<now, platform, lastSave>>
        /\ UNCHANGED <<farmVars, orderVars, aggVars, raceVars, restVars>>

\* The session is invalidated: _clear_session
ClearSessionCall ==
    /\ LoadSession(store).exists
    /\ store' = ClearSession(store)
    /\ lastEnsure' = NoEnsure
    /\ lastAuth' = NoAuth
    /\ ensureStreak' = 0
    /\ UNCHANGED <<now, platform, lastSave>>
    /\ UNCHANGED <<farmVars, orderVars, aggVars, raceVars, restVars>>

SessionTick ==
    /\ now < MaxSessionTime
    /\ Tick
    /\ UNCHANGED <<farmVars, orderVars, aggVars, raceVars, restVars>>

SessionNext ==
    EnsureAuthenticatedCall \/ AuthenticateCall \/ ClearSessionCall \/ SessionTick

SpecSession == SessionInit /\ [][SessionNext]_vars

\* A stored session is valid at the time of a call when it exists and its
\* expiry is null or in the future.
ValidAtCall(e) == e.hadRow /\ (e.expiry = NullTime \/ e.expiry > e.at)

\* A stored session is past its expiry at the time of a call.
PastExpiryAtCall(e) == e.hadRow /\ e.expiry # NullTime /\ e.expiry < e.at

\* C4: an ensure_authenticated() call that follows another one and finds the
\* stored session still valid (expiry null or in the future) makes no
\* authenticate() call, returns true and leaves the stored session unchanged.
C4_ValidSessionReused ==
    (lastEnsure.called /\ ensureStreak = 2 /\ ValidAtCall(lastEnsure)) =>
        /\ lastEnsure.authCalls = 0
        /\ lastEnsure.result
        /\ lastEnsure.unchanged

\* C4 happens: two ensure_authenticated() calls in succession, the second on a
\* session whose expiry is in the future, after time has passed.
C4_Witness ==
    /\ lastEnsure.called
    /\ ensureStreak = 2
    /\ ValidAtCall(lastEnsure)
    /\ lastEnsure.expiry # NullTime
    /\ lastEnsure.at > 0
    /\ lastEnsure.authCalls = 0
    /\ lastEnsure.result

\* C5: ensure_authenticated() on a stored session past its expiry does what it
\* does on no stored session: it calls authenticate() once and returns that
\* call's result; on a session with a null expiry it never authenticates,
\* however late it is called.
C5_ExpiredIsAbsent ==
    lastEnsure.called =>
        /\ (~lastEnsure.hadRow \/ PastExpiryAtCall(lastEnsure)) =>
               /\ lastEnsure.authCalls = 1
               /\ lastEnsure.result = lastEnsure.authOk
        /\ (lastEnsure.hadRow /\ lastEnsure.expiry = NullTime) =>
               /\ lastEnsure.authCalls = 0
               /\ lastEnsure.result

\* C5 happens: ensure_authenticated() found a session past its expiry,
\* authenticated, and returned the false that authenticate() returned.
C5_Witness ==
    /\ lastEnsure.called
    /\ PastExpiryAtCall(lastEnsure)
    /\ lastEnsure.authCalls = 1
    /\ ~lastEnsure.result
    /\ ~lastEnsure.authOk

\* C10: whenever authenticate() has returned true, on any adapter and by any
\* path, it made at least one _save_session call before returning: the row of
\* the distributor exists and was written during that call.
C10_SuccessPersistsSession ==
    (lastAuth.called /\ lastAuth.ok) =>
        /\ lastAuth.saves >= 1
        /\ lastAuth.rowExists
        /\ lastAuth.rowWrittenAt = lastAuth.at

\* Causes of a failed authenticate(): the platform rejected the credentials
\* (failure status, or every refresh token refused), and an HTTP request of the
\* handshake raised.
RejectedCauses == {"rejected"}
TransportCauses == {"exception"}

\* C11 (as amended): authenticate() returns false without raising when the
\* platform rejects the credentials, and it returns false without raising as
\* well when a request of the handshake raises: no authenticate() call ends by
\* raising, a failed one has written nothing to the session store.
C11_FailuresReturnFalse ==
    lastAuth.called =>
        /\ lastAuth.ending \in {"return_true", "return_false"}
        /\ lastAuth.cause \in RejectedCauses \cup TransportCauses =>
               /\ lastAuth.ending = "return_false"
               /\ ~lastAuth.ok
               /\ lastAuth.unchanged

\* C11 happens: on the one-request adapter of MetroWholesale the HTTP client
\* raised during the login, later than the stored session was written, and
\* authenticate() returned false.
C11_Witness ==
    /\ lastAuth.called
    /\ platform = "metrowholesale"
    /\ lastAuth.cause = "exception"
    /\ lastAuth.ending = "return_false"
    /\ lastAuth.at > 0
    /\ store.exists

\* C11 as stated: a rejection is a false return, and a transport error is
\* raised to the caller, never reported as a false return.
C11_TransportErrorsPropagate ==
    lastAuth.called =>
        /\ lastAuth.cause \in RejectedCauses => lastAuth.ending = "return_false"
        /\ lastAuth.cause \in TransportCauses => lastAuth.ending = "raise"
        /\ lastAuth.ending = "raise" => lastAuth.cause \in TransportCauses

\* The place of a step in the order of the authentication chain
ChainPlace(name) ==
    CASE name = "session_refresh"    -> 1
      [] name = "credential_refresh" -> 2
      [] name = "token_file"         -> 3
      [] name = "browser_login"      -> 4

\* C13: the authentication chain attempts its steps in the order stored-session
\* refresh token, credential-store refresh token, token file, interactive
\* login; every step attempted before another one failed, so that nothing is
\* attempted after a success; and the chain returns true exactly when a step
\* succeeded.
C13_ChainInOrderUntilSuccess ==
    (lastAuth.called /\ platform = "valleyfoods") =>
        LET steps == lastAuth.steps
        IN  /\ \A i, j \in 1 .. Len(steps) :
                   i < j => ChainPlace(steps[i].name) < ChainPlace(steps[j].name)
            /\ \A i \in 1 .. Len(steps) : i < Len(steps) => ~steps[i].ok
            /\ lastAuth.ok <=> \E i \in 1 .. Len(steps) : steps[i].ok

\* C13 happens: the stored refresh token and the one of the credential store
\* were both refused, the token file was accepted, and the chain returned true
\* without attempting the interactive login.
C13_Witness ==
    /\ lastAuth.called
    /\ platform = "valleyfoods"
    /\ lastAuth.ok
    /\ lastAuth.steps = << [name |-> "session_refresh", ok |-> FALSE],
                           [name |-> "credential_refresh", ok |-> FALSE],
                           [name |-> "token_file", ok |-> TRUE] >>

\* C10 happens: the no-auth-cookie path of MetroWholesaleClient.authenticate
\* returned true, after time has passed since the row was last written.
C10_Witness ==
    /\ lastAuth.called
    /\ lastAuth.ok
    /\ platform = "metrowholesale"
    /\ lastAuth.cause = "ok_no_auth_cookie"
    /\ lastAuth.at > 0
    /\ store.exists

\* ------------------------------------------ SpecFarm: the heartbeat adapter

FarmOps == {"search", "add_to_cart", "get_cart"}

\* What the platform answers the heartbeat request:
\*   ok             200
\*   ok_timed_out   200, the body holding errorCode ERR_USER_SESSION_TIMED_OUT
\*   timed_out      another status, the body holding that errorCode
\*   error          another status, any other body
\*   exception      the HTTP client raised
HeartbeatAnswers == {"ok", "ok_timed_out", "timed_out", "error", "exception"}

\* What it answers a substantive request: the same, and
\*   ok_error       200, the body holding another errorCode
RequestAnswers == HeartbeatAnswers \cup {"ok_error"}

\* What _heartbeat returns on an answer to its request: True on status 200,
\* the body unread
HeartbeatResult(answer) == answer \in {"ok", "ok_timed_out"}

\* An _ensure_session_fresh that authenticates whenever it is called, idle or
\* not
EnsureSessionFreshAlwaysAuthenticates(s, t, last) ==
    {[store |-> a.store, last |-> IF a.ok THEN t ELSE last,
      fresh |-> [NoFresh EXCEPT !.authsAfter = 1, !.result = a.ok]] :
        a \in AuthenticateFarm(s, t)}

\* _ensure_session_fresh at time t, with _heartbeat; the outcomes it can end
\* with: the stored session, _last_activity, and what it did.
EnsureSessionFresh(s, t, last) ==
    IF t - last > HEARTBEAT_INTERVAL
    THEN UNION {UNION {
            LET last1 == IF e.authCalls = 1 /\ e.auth.ok THEN t ELSE last
            IN  IF HeartbeatResult(hb)
                THEN {[store |-> e.store, last |-> t,
                       fresh |-> [idle |-> TRUE, since |-> last, heartbeats |-> 1, answer |-> hb,
                                  authsBefore |-> e.authCalls, authsAfter |-> 0,
                                  result |-> TRUE]]}
                ELSE {[store |-> a.store,
                       last |-> IF a.ok THEN t ELSE last1,
                       fresh |-> [idle |-> TRUE, since |-> last, heartbeats |-> 1, answer |-> hb,
                                  authsBefore |-> e.authCalls, authsAfter |-> 1,
                                  result |-> a.ok]] :
                          a \in AuthenticateFarm(e.store, t)} :
            hb \in HeartbeatAnswers} :
         e \in EnsureAuthenticated("farmdirect", s, t)}
    ELSE {[store |-> s, last |-> last, fresh |-> NoFresh]}

\* What an operation does with the answer to its request:
\*   "return"   it returns what it got
\*   "fail"     it returns its empty value ([], False, an empty cart)
\*   "reauth"   the answer is the session-timeout error: authenticate(), and on
\*              success the operation calls itself
\* search: a status other than 200 goes to _handle_session_error, a 200 body
\* with an errorCode to _handle_session_error_data.
SearchOn(answer) ==
    CASE answer = "ok" -> "return"
      [] answer \in {"ok_timed_out", "timed_out"} -> "reauth"
      [] OTHER -> "fail"

\* add_to_cart: 200 is success whatever the body holds
AddToCartOn(answer) ==
    CASE answer \in {"ok", "ok_timed_out", "ok_error"} -> "return"
      [] answer = "timed_out" -> "reauth"
      [] OTHER -> "fail"

\* get_cart: a status other than 200 is an empty cart
GetCartOn(answer) ==
    CASE answer = "ok" -> "return"
      [] answer = "ok_timed_out" -> "reauth"
      [] OTHER -> "fail"

OperationOn(op, answer) ==
    CASE op = "search" -> SearchOn(answer)
      [] op = "add_to_cart" -> AddToCartOn(answer)
      [] OTHER -> GetCartOn(answer)

\* Sessions an earlier login of the adapter left
FarmRows ==
    {AbsentSession} \cup
    {[exists |-> TRUE, cookies |-> "ck_b", headers |-> Null, auth_token |-> Null,
      expires_at |-> e, last_used_at |-> 0] : e \in {0, FARM_SESSION_MINUTES}}

FarmInit ==
    /\ now = 0
    /\ platform = "farmdirect"
    /\ store \in FarmRows
    /\ lastSave = NoSave
    /\ lastEnsure = NoEnsure
    /\ lastAuth = NoAuth
    /\ ensureStreak = 0
    /\ OrderAtRest /\ AggAtRest /\ RaceAtRest /\ RestAtRest
    /\ farmPc = "idle"
    /\ farmOp = "none"
    /\ lastActivity \in (IF store.exists THEN {NeverActive, 0} ELSE {NeverActive})
    /\ farmDepth = 0
    /\ farmCall = NoFarmCall
    /\ farmFresh = NoFresh

\* A caller awaits search, add_to_cart or get_cart
FarmCall ==
    /\ farmPc = "idle"
    /\ \E op \in FarmOps : farmOp' = op
    /\ farmPc' = "fresh"
    /\ farmDepth' = 0
    /\ farmCall' = NoFarmCall
    /\ farmFresh' = NoFresh
    /\ UNCHANGED <<lastActivity, sessionVars, orderVars, aggVars, raceVars, restVars>>

\* The operation awaits _ensure_session_fresh and goes on whatever it returns
FarmEnsureSessionFresh ==
    /\ farmPc = "fresh"
    /\ \E r \in EnsureSessionFresh(store, now, lastActivity) :
        /\ store' = r.store
        /\ lastActivity' = r.last
        /\ farmFresh' = r.fresh
        /\ farmCall' = [farmCall EXCEPT
                            !.auths = @ + r.fresh.authsBefore + r.fresh.authsAfter,
                            !.heartbeats = @ + r.fresh.heartbeats,
                            !.viaEnsure = @ + r.fresh.authsBefore,
                            !.afterHeartbeat = @ + r.fresh.authsAfter,
                            !.failedHeartbeats = @ +
                                (IF r.fresh.heartbeats = 1
                                    /\ ~HeartbeatResult(r.fresh.answer)
                                 THEN 1 ELSE 0)]
    /\ farmPc' = "request"
    /\ UNCHANGED <<farmOp, farmDepth>>
    /\ UNCHANGED <<now, platform, lastSave, lastEnsure, lastAuth, ensureStreak>>
    /\ UNCHANGED <<orderVars, aggVars, raceVars, restVars>>

\* The operation sends its request and returns what it got or its empty value
FarmRequestReturns ==
    /\ farmPc = "request"
    /\ \E answer \in RequestAnswers :
        /\ OperationOn(farmOp, answer) \in {"return", "fail"}
        /\ lastActivity' = IF answer = "exception" THEN lastActivity ELSE now
        /\ farmCall' = [farmCall EXCEPT
                            !.requests = @ + 1, !.answer = answer,
                            !.result = IF OperationOn(farmOp, answer) = "return"
                                       THEN "value" ELSE "empty"]
    /\ farmPc' = "idle"
    /\ UNCHANGED <<farmOp, farmDepth, farmFresh, sessionVars, orderVars, aggVars, raceVars, restVars>>

\* The operation sends its request, is answered the session-timeout error and
\* authenticates; on success it calls itself, which the recursion limit of the
\* interpreter ends with a RecursionError that the caller's except clause
\* turns into the empty value.
FarmRequestTimedOut ==
    /\ farmPc = "request"
    /\ \E answer \in RequestAnswers :
        /\ OperationOn(farmOp, answer) = "reauth"
        /\ \E a \in AuthenticateFarm(store, now) :
            /\ store' = a.store
            /\ lastActivity' = now
            /\ IF ~a.ok
               THEN /\ farmPc' = "idle"
                    /\ farmDepth' = farmDepth
                    /\ farmCall' = [farmCall EXCEPT !.requests = @ + 1, !.answer = answer,
                                        !.auths = @ + 1, !.result = "empty",
                                        !.afterTimeout = @ + 1,
                                        !.timeoutAnswers = @ + 1]
               ELSE IF farmDepth < RecursionLimit
                    THEN /\ farmPc' = "fresh"
                         /\ farmDepth' = farmDepth + 1
                         /\ farmCall' = [farmCall EXCEPT !.requests = @ + 1, !.answer = answer,
                                             !.auths = @ + 1,
                                             !.afterTimeout = @ + 1,
                                             !.timeoutAnswers = @ + 1]
                    ELSE /\ farmPc' = "idle"
                         /\ farmDepth' = farmDepth
                         /\ farmCall' = [farmCall EXCEPT !.requests = @ + 1, !.answer = answer,
                                             !.auths = @ + 1,
                                             !.afterTimeout = @ + 1,
                                             !.timeoutAnswers = @ + 1,
                                             !.result = "recursion_error"]
    /\ UNCHANGED <<farmOp, farmFresh>>
    /\ UNCHANGED <<now, platform, lastSave, lastEnsure, lastAuth, ensureStreak>>
    /\ UNCHANGED <<orderVars, aggVars, raceVars, restVars>>

\* Time passes between two operations
FarmTick ==
    /\ farmPc = "idle"
    /\ now < MaxFarmTime
    /\ Tick
    /\ UNCHANGED <<farmVars, orderVars, aggVars, raceVars, restVars>>

FarmNext ==
    \/ FarmCall
    \/ FarmEnsureSessionFresh
    \/ FarmRequestReturns
    \/ FarmRequestTimedOut
    \/ FarmTick

SpecFarm == FarmInit /\ [][FarmNext]_vars

\* C6: a search, add_to_cart or get_cart call that is answered the
\* session-expired signal re-authenticates and retries once, and never again:
\* one call calls itself at most once and sends at most two substantive
\* requests, however often the platform reports the session expired.
C6_RetriedAtMostOnce ==
    /\ farmDepth <= 1
    /\ farmCall.requests <= 2

\* C7: once more than the idle interval has passed since the last activity, the
\* operation sends exactly one heartbeat request before its substantive
\* request; when the heartbeat's answer reports the session timed out, exactly
\* one authenticate() is made before the substantive request, and when the
\* heartbeat succeeds none is.
C7_HeartbeatDecidesReauth ==
    (farmPc = "request" /\ farmFresh.idle /\ farmFresh.since # NeverActive) =>
        /\ farmFresh.heartbeats = 1
        /\ farmFresh.answer \in {"ok_timed_out", "timed_out"} =>
               farmFresh.authsBefore + farmFresh.authsAfter = 1
        /\ farmFresh.answer = "ok" =>
               farmFresh.authsBefore + farmFresh.authsAfter = 0

\* C19: no operation of the adapter whose platform reports the session timeout
\* in the response body treats a 200 answer that carries the timeout code as
\* a success: the heartbeat that is answered so is followed by an
\* authenticate(), and search, add_to_cart and get_cart do not return a value
\* taken from such an answer.
C19_TimeoutBodyNeverSuccess ==
    /\ (farmFresh.idle /\ farmFresh.answer = "ok_timed_out") =>
           farmFresh.authsAfter = 1
    /\ (farmPc = "idle" /\ farmCall.answer = "ok_timed_out") =>
           farmCall.result # "value"

\* The last operation ended on an answer that reported the session timed out,
\* and no authenticate() has succeeded since that answer
SessionRejected ==
    /\ farmPc = "idle"
    /\ farmCall.answer \in {"ok_timed_out", "timed_out"}
    /\ farmCall.result # "recursion_error"

\* C20: once a live API call has shown that the platform timed the session
\* out, the stored session is no longer taken as usable: unless an
\* authenticate() has replaced it since, the next ensure_authenticated() calls
\* authenticate().
C20_RejectedSessionLeavesStore ==
    SessionRejected =>
        \A r \in EnsureAuthenticated("farmdirect", store, now) : r.authCalls = 1

\* C12 (as amended): authenticate() is invoked from ensure_authenticated() and,
\* in the heartbeat adapter, directly by session-freshness handling, once after
\* each heartbeat that failed, and by session-error handling, once after each
\* session-timeout answer; an operation makes no other authenticate() call.
C12_DirectOnlyAfterSessionLoss ==
    /\ farmCall.auths =
           farmCall.viaEnsure + farmCall.afterHeartbeat + farmCall.afterTimeout
    /\ farmCall.afterHeartbeat = farmCall.failedHeartbeats
    /\ farmCall.afterTimeout = farmCall.timeoutAnswers
    /\ farmFresh.authsAfter =
           (IF farmFresh.idle /\ ~HeartbeatResult(farmFresh.answer) THEN 1 ELSE 0)

\* C12 happens: one operation has returned a value after ensure_authenticated
\* authenticated for the heartbeat and session-error handling authenticated
\* directly on a session-timeout answer.
C12_Witness ==
    /\ farmPc = "idle"
    /\ farmCall.result = "value"
    /\ farmCall.viaEnsure = 1
    /\ farmCall.afterTimeout = 1
    /\ farmCall.afterHeartbeat = 0

\* C12 as stated: every authenticate() call of an operation is made by
\* ensure_authenticated().
C12_OnlyFromEnsureAuthenticated ==
    farmCall.auths = farmCall.viaEnsure


\* ------------------------------------------- SpecOrder: the order-first adapters

OrderPlatforms == {"greenmarket", "valleyfoods"}

\* The id the platform gives the next order it creates
NextOrderId(orders) == Cardinality(orders) + 1

\* What the platform answers a create-order request:
\*   created         2xx (IsSuccess) with the id of the new order
\*   created_no_id   2xx, the order is created, but the body holds no id
\*   rejected        a failure status (IsSuccess false)
\*   exception       the HTTP client raised
CreateAnswers == {"created", "created_no_id", "rejected", "exception"}

\* An order resolution: the id the adapter holds after it, the orders of the
\* platform, and the lookups and create requests sent.
OrderResolution(id, orders, lookups, found, creates) ==
    [id |-> id, orders |-> orders, lookups |-> lookups, found |-> found,
     creates |-> creates]

\* GreenMarketClient._create_order; ValleyFoodsClient._get_or_create_order
\* from its create request on
CreateOrder(orders, answer, lookups) ==
    CASE answer = "created" ->
            OrderResolution(NextOrderId(orders),
                            orders \cup {NextOrderId(orders)}, lookups, FALSE, 1)
      [] answer = "created_no_id" ->
            OrderResolution(NoOrder, orders \cup {NextOrderId(orders)},
                            lookups, FALSE, 1)
      [] OTHER -> OrderResolution(NoOrder, orders, lookups, FALSE, 1)

\* _ensure_order_exists without its test of self._current_order_id
EnsureOrderAlwaysCreates(id, orders, answer) == CreateOrder(orders, answer, 0)

\* GreenMarketClient._ensure_order_exists
EnsureOrderExists(id, orders, answer) ==
    IF id # NoOrder
    THEN OrderResolution(id, orders, 0, FALSE, 0)
    ELSE CreateOrder(orders, answer, 0)

\* What the platform answers GetActiveOrder: the active order of the customer
\* when it holds one, nothing when it holds none, or the request fails.
ActiveOrderAnswers(orders) ==
    {"raised"} \cup (IF orders = {} THEN {"none"} ELSE {"active"})

\* The active order of the customer: the latest one
ActiveOrder(orders) == Cardinality(orders)

\* ValleyFoodsClient._get_or_create_order, with _get_active_order_id
GetOrCreateOrder(id, orders, lookup, answer) ==
    IF id # NoOrder
    THEN OrderResolution(id, orders, 0, FALSE, 0)
    ELSE IF lookup = "active"
         THEN OrderResolution(ActiveOrder(orders), orders, 1, TRUE, 0)
         ELSE CreateOrder(orders, answer, 1)

\* What the item request is answered
PostAnswers == {"ok", "rejected", "exception"}

\* What the product search ValleyFoodsClient.add_to_cart begins with ends in
\* ("not_found": no result, or one without a ProductKey)
ProductSearches == {"found", "not_found", "raised"}

\* Sessions on which ensure_authenticated returns at once
ValidRows ==
    {[exists |-> TRUE, cookies |-> "ck_a", headers |-> Null, auth_token |-> tok,
      expires_at |-> e, last_used_at |-> 0] :
        tok \in {Null, "Bearer a"}, e \in {NullTime, DAY_MINUTES}}

\* The stored session after n ensure_authenticated calls in a row
RECURSIVE AfterEnsures(_, _, _, _)
AfterEnsures(p, s, t, n) ==
    IF n = 0
    THEN {s}
    ELSE UNION {AfterEnsures(p, r.store, t, n - 1) :
                    r \in EnsureAuthenticated(p, s, t)}

OrderInit ==
    /\ now = 0
    /\ platform \in OrderPlatforms
    /\ store \in ValidRows
    /\ lastSave = NoSave
    /\ lastEnsure = NoEnsure
    /\ lastAuth = NoAuth
    /\ ensureStreak = 0
    /\ FarmAtRest /\ AggAtRest /\ RaceAtRest /\ RestAtRest
    /\ orderId = NoOrder
    /\ serverOrders \in {{}, {1}}
    /\ addCalls = 0
    /\ lastAdd = NoAdd
    /\ lastCart = NoCart

\* What an add_to_cart call leaves, given the order resolution r it made, and
\* the answer to its item request
AddFinish(r, reached, post) ==
    /\ orderId' = r.id
    /\ serverOrders' = r.orders
    /\ addCalls' = addCalls + 1
    /\ lastAdd' = [called |-> TRUE, idBefore |-> orderId,
                   ordersBefore |-> Cardinality(serverOrders),
                   reachedOrder |-> reached, lookups |-> r.lookups,
                   found |-> r.found, creates |-> r.creates,
                   posted |-> (reached /\ r.id # NoOrder),
                   target |-> IF reached /\ r.id # NoOrder THEN r.id ELSE NoOrder,
                   result |-> IF ~reached THEN post
                              ELSE IF r.id # NoOrder /\ post = "ok"
                                   THEN "true" ELSE "false"]
    /\ lastCart' = NoCart

\* GreenMarketClient.add_to_cart.  An answer to a request that is not sent is
\* not chosen: it is held at one value.
GreenAddToCart ==
    /\ platform = "greenmarket"
    /\ addCalls < MaxAdds
    /\ \E answer \in CreateAnswers, post \in PostAnswers :
        LET r == EnsureOrderExists(orderId, serverOrders, answer)
        IN  /\ (r.creates = 0 => answer = "created")
            /\ (r.id = NoOrder => post = "ok")
            /\ AddFinish(r, TRUE, post)
            /\ store' \in AfterEnsures(platform, store, now,
                              r.creates + (IF r.id # NoOrder THEN 1 ELSE 0))
    /\ UNCHANGED <<now, platform, lastSave, lastEnsure, lastAuth, ensureStreak>>
    /\ UNCHANGED <<farmVars, aggVars, raceVars, restVars>>

\* ValleyFoodsClient.add_to_cart
ValleyAddToCart ==
    /\ platform = "valleyfoods"
    /\ addCalls < MaxAdds
    /\ \E found \in ProductSearches :
        IF found # "found"
        THEN /\ AddFinish(OrderResolution(orderId, serverOrders, 0, FALSE, 0), FALSE,
                          IF found = "raised" THEN "raised" ELSE "false")
             /\ store' \in AfterEnsures(platform, store, now, 1)
        ELSE \E lookup \in ActiveOrderAnswers(serverOrders),
                answer \in CreateAnswers, post \in PostAnswers :
                LET r == GetOrCreateOrder(orderId, serverOrders, lookup, answer)
                IN  /\ (r.lookups = 0 => lookup = "raised")
                    /\ (r.creates = 0 => answer = "created")
                    /\ (r.id = NoOrder => post = "ok")
                    /\ AddFinish(r, TRUE, post)
                    /\ store' \in AfterEnsures(platform, store, now,
                                      1 + r.lookups + r.creates
                                        + (IF r.id # NoOrder THEN 1 ELSE 0))
    /\ UNCHANGED <<now, platform, lastSave, lastEnsure, lastAuth, ensureStreak>>
    /\ UNCHANGED <<farmVars, aggVars, raceVars, restVars>>

\* What the platform answers the request for the order of the cart:
\*   items       success, the order holds lines
\*   no_items    success, the order holds none
\*   rejected    a failure status (IsSuccess false)
\*   exception   the HTTP client raised
CartAnswers == {"items", "no_items", "rejected", "exception"}

\* What the requests that remove the lines of a cart are answered, taken
\* together
RemoveAnswers == {"ok", "rejected"}

\* What a get_cart did: the cart it returns ("empty", "items"), the order id the
\* adapter holds after it, the requests sent, whether it raised.
CartRead(cart, id, lookups, requests, raised) ==
    [cart |-> cart, id |-> id, lookups |-> lookups, requests |-> requests,
     raised |-> raised]

\* GreenMarketClient.get_cart
GreenGetCart(id, answer) ==
    IF id = NoOrder
    THEN CartRead("empty", id, 0, 0, FALSE)
    ELSE CartRead(IF answer = "items" THEN "items" ELSE "empty", id, 0, 1, FALSE)

\* GreenMarketClient.clear_cart: what it returns, and the get_cart it made
GreenClearCart(id, answer) ==
    IF id = NoOrder
    THEN [result |-> "true", read |-> CartRead("none", id, 0, 0, FALSE)]
    ELSE LET cart == GreenGetCart(id, answer)
         IN  [result |-> IF cart.cart = "empty" THEN "true" ELSE "false",
              read |-> cart]

\* A _get_active_order_id whose lookup is not in a try block
GetActiveOrderIdRaises(id, orders, lookup) ==
    IF id # NoOrder
    THEN [id |-> id, lookups |-> 0, raised |-> FALSE]
    ELSE [id |-> IF lookup = "active" THEN ActiveOrder(orders) ELSE NoOrder,
          lookups |-> 1, raised |-> (lookup = "raised")]

\* ValleyFoodsClient._get_active_order_id: the id held, or the one looked up;
\* an exception of the lookup is logged and None returned
GetActiveOrderId(id, orders, lookup) ==
    IF id # NoOrder
    THEN [id |-> id, lookups |-> 0, raised |-> FALSE]
    ELSE [id |-> IF lookup = "active" THEN ActiveOrder(orders) ELSE NoOrder,
          lookups |-> 1, raised |-> FALSE]

\* ValleyFoodsClient.get_cart
ValleyGetCart(id, orders, lookup, answer) ==
    LET o == GetActiveOrderId(id, orders, lookup)
    IN  IF o.raised
        THEN CartRead("none", id, o.lookups, 0, TRUE)
        ELSE IF o.id = NoOrder
             THEN CartRead("empty", o.id, o.lookups, 0, FALSE)
             ELSE CartRead(IF answer = "items" THEN "items" ELSE "empty",
                           o.id, o.lookups, 1, FALSE)

\* ValleyFoodsClient.clear_cart: every line of the cart is removed in turn
ValleyClearCart(id, orders, lookup, answer, removal) ==
    LET cart == ValleyGetCart(id, orders, lookup, answer)
    IN  [result |-> IF cart.raised THEN "none"
                    ELSE IF cart.cart = "empty" \/ removal = "ok"
                         THEN "true" ELSE "false",
         read |-> cart]

CartRecord(op, read, result) ==
    [called |-> TRUE, op |-> op, idBefore |-> orderId,
     ordersBefore |-> Cardinality(serverOrders), lookups |-> read.lookups,
     requests |-> read.requests, cart |-> read.cart, result |-> result,
     raised |-> read.raised]

\* A caller awaits get_cart.  An answer to a request that is not sent is held
\* at one value.
GetCart ==
    /\ \E lookup \in ActiveOrderAnswers(serverOrders), answer \in CartAnswers :
        LET read == IF platform = "greenmarket"
                    THEN GreenGetCart(orderId, answer)
                    ELSE ValleyGetCart(orderId, serverOrders, lookup, answer)
        IN  /\ (read.lookups = 0 => lookup = "raised")
            /\ (read.requests = 0 => answer = "items")
            /\ orderId' = read.id
            /\ lastCart' = CartRecord("get_cart", read,
                                IF read.raised THEN "none" ELSE read.cart)
            /\ store' \in AfterEnsures(platform, store, now,
                              read.lookups + read.requests)
    /\ lastAdd' = NoAdd
    /\ UNCHANGED <<serverOrders, addCalls>>
    /\ UNCHANGED <<now, platform, lastSave, lastEnsure, lastAuth, ensureStreak>>
    /\ UNCHANGED <<farmVars, aggVars, raceVars, restVars>>

\* A caller awaits clear_cart
ClearCart ==
    /\ \E lookup \in ActiveOrderAnswers(serverOrders), answer \in CartAnswers,
          removal \in RemoveAnswers :
        LET c == IF platform = "greenmarket"
                 THEN GreenClearCart(orderId, answer)
                 ELSE ValleyClearCart(orderId, serverOrders, lookup, answer, removal)
        IN  /\ (c.read.lookups = 0 => lookup = "raised")
            /\ (c.read.requests = 0 => answer = "items")
            /\ ((platform = "greenmarket" \/ c.read.cart # "items") => removal = "ok")
            /\ orderId' = c.read.id
            /\ lastCart' = CartRecord("clear_cart", c.read, c.result)
            /\ store' \in AfterEnsures(platform, store, now,
                              c.read.lookups + c.read.requests)
    /\ lastAdd' = NoAdd
    /\ UNCHANGED <<serverOrders, addCalls>>
    /\ UNCHANGED <<now, platform, lastSave, lastEnsure, lastAuth, ensureStreak>>
    /\ UNCHANGED <<farmVars, aggVars, raceVars, restVars>>

OrderNext == GreenAddToCart \/ ValleyAddToCart \/ GetCart \/ ClearCart

SpecOrder == OrderInit /\ [][OrderNext]_vars

\* C8: an add_to_cart call of an order-first adapter that holds no order id and
\* finds no active order sends exactly one create-order request, and when that
\* yields an id exactly one order has been created and the item is posted to
\* it; a call on an adapter that holds an order id sends no lookup and no
\* create request, posts the item to the id held and leaves it as it was; no
\* call creates more than one order, and an item is only ever posted to the
\* order the adapter holds.
C8_OneOrderThenReuse ==
    lastAdd.called =>
        /\ lastAdd.creates <= 1
        /\ Cardinality(serverOrders) - lastAdd.ordersBefore <= 1
        /\ (lastAdd.idBefore = NoOrder /\ lastAdd.reachedOrder /\ ~lastAdd.found) =>
               lastAdd.creates = 1
        /\ (lastAdd.creates = 1 /\ orderId # NoOrder) =>
               /\ Cardinality(serverOrders) = lastAdd.ordersBefore + 1
               /\ lastAdd.posted
               /\ lastAdd.target = orderId
        /\ lastAdd.idBefore # NoOrder =>
               /\ lastAdd.creates = 0
               /\ lastAdd.lookups = 0
               /\ orderId = lastAdd.idBefore
               /\ Cardinality(serverOrders) = lastAdd.ordersBefore
               /\ lastAdd.reachedOrder => (lastAdd.posted /\ lastAdd.target = lastAdd.idBefore)
        /\ lastAdd.posted =>
               (lastAdd.target = orderId /\ lastAdd.target \in serverOrders)

\* C8 happens: with no order on the platform, a first add_to_cart created
\* order 1 and a later one posted its item to order 1, no other order having
\* been created.
C8_Witness ==
    /\ addCalls >= 2
    /\ lastAdd.called
    /\ lastAdd.idBefore = 1
    /\ lastAdd.posted
    /\ lastAdd.target = 1
    /\ lastAdd.result = "true"
    /\ serverOrders = {1}
    /\ platform = "greenmarket"

\* An adapter has no order yet: it holds no order id, and on the platform where
\* get_cart looks the active order up, the customer has no order there either.
NoOrderYet(c) ==
    /\ c.idBefore = NoOrder
    /\ platform = "valleyfoods" => c.ordersBefore = 0

\* C14: on an order-first adapter with no order yet, get_cart returns an empty
\* cart and clear_cart returns true; neither raises, and neither leaves the
\* adapter or the platform with an order.
C14_NoOrderEmptyCart ==
    (lastCart.called /\ NoOrderYet(lastCart)) =>
        /\ ~lastCart.raised
        /\ lastCart.op = "get_cart" => lastCart.result = "empty"
        /\ lastCart.op = "clear_cart" => lastCart.result = "true"
        /\ lastCart.requests = 0
        /\ orderId = NoOrder
        /\ Cardinality(serverOrders) = lastCart.ordersBefore

\* C14 happens: clear_cart on the adapter that looks the active order up, when
\* the lookup request failed because the customer has no order, returned true.
C14_Witness ==
    /\ lastCart.called
    /\ platform = "valleyfoods"
    /\ lastCart.op = "clear_cart"
    /\ NoOrderYet(lastCart)
    /\ lastCart.lookups = 1
    /\ lastCart.result = "true"
    /\ serverOrders = {}

\* ----------------------------------------------- SpecAgg: the search aggregator

\* The distributor_ids argument: None, or a list with the ids in it
IdArgs == {NoIds} \cup {[given |-> TRUE, ids |-> S] : S \in SUBSET Distributors}

\* "if distributor_ids:" - the list is there and not empty
Truthy(a) == a.given /\ a.ids # {}

\* The distributor query with ordering_enabled tested only for the
\* distributors distributor_ids does not name
ResolveNamedRegardless(dists, ids) ==
    {d \in DOMAIN dists :
        /\ dists[d].is_active
        /\ (dists[d].ordering_enabled \/ d \in ids.ids)
        /\ (Truthy(ids) => d \in ids.ids)}

\* The rows the distributor query of search_all selects: active and
\* ordering-enabled, and among the ids when the list is neither None nor empty.
ResolveDistributors(dists, ids) ==
    {d \in DOMAIN dists :
        /\ dists[d].is_active
        /\ dists[d].ordering_enabled
        /\ (Truthy(ids) => d \in ids.ids)}

\* The orders in which .all() can return a set of rows (the query has no ORDER BY)
Orderings(S) ==
    {q \in [1 .. Cardinality(S) -> S] :
        \A i, j \in 1 .. Cardinality(S) : q[i] = q[j] => i = j}

\* The calls of the try block of _search_distributor, in order
TrySteps == <<"get_client", "ensure_authenticated", "search", "close", "normalize">>

\* Where the try block raises ("none": nowhere)
RaiseStages == {"none"} \cup {TrySteps[i] : i \in DOMAIN TrySteps}

\* The calls made by a try block that raised at a stage: the steps up to it
CallsOfTry(stage) ==
    IF stage = "none"
    THEN {TrySteps[i] : i \in DOMAIN TrySteps}
    ELSE {TrySteps[i] : i \in {j \in DOMAIN TrySteps :
                                  \A k \in 1 .. j - 1 : TrySteps[k] # stage}}

\* What the live API answers the search request of an adapter
LiveAnswers == {"ok", "transport_failure", "non_success"}

\* How the adapters' search methods treat an answer:
\*   "swallows"   GreenMarket, FarmDirect, MetroWholesale: a status other than
\*                200 and every exception is logged and [] returned
\*   "raises"     ValleyFoods: _api_request's raise_for_status and the
\*                exceptions of the HTTP client are not caught
AdapterKinds == {"swallows", "raises"}

\* client.search(query, limit) of an adapter of that kind, on that answer
AdapterSearch(kind, live) ==
    IF live = "ok" THEN "results"
    ELSE IF kind = "swallows" THEN "empty" ELSE "raise"

\* The task after its try block, which raised at stage ("none": nowhere) and
\* whose search request, when one was sent, was answered live
TryOutcome(stage, live) ==
    IF stage = "none"
    THEN [pc |-> "done", raised |-> "none", live |-> live, fallback |-> "none",
          results |-> IF live = "ok" THEN "api" ELSE "api_empty", error |-> Null]
    ELSE [pc |-> "except", raised |-> stage, live |-> live, fallback |-> "none",
          results |-> "none", error |-> Null]

\* An except block that raises the adapter's exception again after the
\* fallback query
ExceptReportsError(t, ok) ==
    [t EXCEPT !.pc = "done", !.fallback = IF ok THEN "ok" ELSE "raised",
              !.results = "none", !.error = "adapter_error"]

\* The task after its except block: the results of _search_database, or the
\* exception _search_database raised
ExceptOutcome(t, ok) ==
    IF ok
    THEN [t EXCEPT !.pc = "done", !.fallback = "ok", !.results = "catalog"]
    ELSE [t EXCEPT !.pc = "done", !.fallback = "raised", !.error = "catalog_error"]

\* The entry search_all builds for a distributor from what gather returned
Entry(d, t) ==
    IF t.error # Null
    THEN [distributor_id |-> d, results |-> "empty", error |-> t.error]
    ELSE [distributor_id |-> d, results |-> t.results, error |-> Null]

\* A result loop that skips the tasks that raised
GatherEntriesDropRaised(q, ts) ==
    LET all == [i \in 1 .. Len(q) |-> Entry(q[i], ts[q[i]])]
        Good(e) == e.error = Null
    IN  SelectSeq(all, Good)

\* A result loop over the tasks in the order in which they finished
\* (asyncio.as_completed in place of gather)
GatherEntriesAsCompleted(q, ts) ==
    [i \in 1 .. Len(completed) |-> Entry(completed[i], ts[completed[i]])]

\* zip(distributors, results) into the "distributors" list
GatherEntries(q, ts) == [i \in 1 .. Len(q) |-> Entry(q[i], ts[q[i]])]

AggInit ==
    /\ now = 0
    /\ store = AbsentSession
    /\ platform = "mock"
    /\ lastSave = NoSave
    /\ lastEnsure = NoEnsure
    /\ lastAuth = NoAuth
    /\ ensureStreak = 0
    /\ FarmAtRest /\ OrderAtRest /\ RaceAtRest /\ RestAtRest
    /\ distributors \in [Distributors -> [is_active : BOOLEAN, ordering_enabled : BOOLEAN]]
    /\ aggPc = "idle"
    /\ distributorIds = NoIds
    /\ queried = <<>>
    /\ tasks = [d \in Distributors |-> NoTask]
    /\ calls = [d \in Distributors |-> {}]
    /\ completed = <<>>
    /\ output = <<>>

\* search_all up to gather: the distributor query, and one task per row
SearchAllStart ==
    /\ aggPc = "idle"
    /\ \E ids \in IdArgs :
        \E q \in Orderings(ResolveDistributors(distributors, ids)) :
            /\ distributorIds' = ids
            /\ queried' = q
            /\ IF DOMAIN q = {}
               THEN aggPc' = "done" /\ tasks' = tasks
               ELSE /\ aggPc' = "gather"
                    /\ tasks' = [d \in Distributors |->
                                    IF \E i \in DOMAIN q : q[i] = d
                                    THEN [NoTask EXCEPT !.pc = "try"]
                                    ELSE NoTask]
    /\ UNCHANGED <<distributors, calls, completed, output>>
    /\ UNCHANGED <<sessionVars, farmVars, orderVars, raceVars, restVars>>

\* The try block of _search_distributor(d)
SearchDistributorTry(d) ==
    /\ aggPc = "gather"
    /\ tasks[d].pc = "try"
    /\ \E stage \in RaiseStages, kind \in AdapterKinds, live \in LiveAnswers :
        \* no search request before the search call; one choice where the
        \* kind of the adapter makes no difference
        /\ stage \in {"get_client", "ensure_authenticated"} =>
               (live = "ok" /\ kind = "swallows")
        /\ live = "ok" => kind = "swallows"
        \* the [] of a failed search leaves nothing to normalize
        /\ stage = "normalize" => live = "ok"
        /\ AdapterSearch(kind, live) = "raise" => stage = "search"
        /\ tasks' = [tasks EXCEPT ![d] = TryOutcome(stage,
                        IF stage \in {"get_client", "ensure_authenticated"}
                        THEN "none" ELSE live)]
        /\ calls' = [calls EXCEPT ![d] = @ \cup CallsOfTry(stage)]
        /\ completed' = IF stage = "none" THEN Append(completed, d) ELSE completed
    /\ UNCHANGED <<distributors, aggPc, distributorIds, queried, output>>
    /\ UNCHANGED <<sessionVars, farmVars, orderVars, raceVars, restVars>>

\* The except block of _search_distributor(d)
SearchDistributorExcept(d) ==
    /\ aggPc = "gather"
    /\ tasks[d].pc = "except"
    /\ \E ok \in BOOLEAN :
        tasks' = [tasks EXCEPT ![d] = ExceptOutcome(tasks[d], ok)]
    /\ calls' = [calls EXCEPT ![d] = @ \cup {"fallback"}]
    /\ completed' = Append(completed, d)
    /\ UNCHANGED <<distributors, aggPc, distributorIds, queried, output>>
    /\ UNCHANGED <<sessionVars, farmVars, orderVars, raceVars, restVars>>

\* A gather without return_exceptions=True: the exception of a task is raised
\* from the await
GatherPropagates(q, ts) == \E i \in DOMAIN q : ts[q[i]].error # Null

\* Whether "await asyncio.gather(*tasks, return_exceptions=True)" raises an
\* exception of a task: never, it hands the exception back as that task's
\* result
GatherRaises(q, ts) == FALSE

\* gather has every result: search_all builds the list and returns, or ends
\* with the exception the await raised
SearchAllReturn ==
    /\ aggPc = "gather"
    /\ \A i \in DOMAIN queried : tasks[queried[i]].pc = "done"
    /\ IF GatherRaises(queried, tasks)
       THEN /\ output' = output
            /\ aggPc' = "raised"
       ELSE /\ output' = GatherEntries(queried, tasks)
            /\ aggPc' = "done"
    /\ UNCHANGED <<distributors, distributorIds, queried, tasks, calls, completed>>
    /\ UNCHANGED <<sessionVars, farmVars, orderVars, raceVars, restVars>>

AggNext ==
    \/ SearchAllStart
    \/ \E d \in Distributors : SearchDistributorTry(d)
    \/ \E d \in Distributors : SearchDistributorExcept(d)
    \/ SearchAllReturn

SpecAgg == AggInit /\ [][AggNext]_vars

\* The entries of the output that belong to distributor d
EntriesOf(d) == {i \in DOMAIN output : output[i].distributor_id = d}

\* The adapter of d was obtained and one of its calls raised
AdapterRaised(d) == tasks[d].raised \in {"ensure_authenticated", "search", "close"}

\* C1: when search_all has returned, its list holds exactly one entry for every
\* distributor it queried (the active, ordering-enabled rows among the ids
\* asked for) and no entry for any other, whether the task of a distributor
\* returned API results, fell back to the catalog or raised.
C1_OneEntryPerQueried ==
    aggPc = "done" =>
        /\ Len(output) = Len(queried)
        /\ \A d \in Distributors :
            Cardinality(EntriesOf(d)) =
                (IF d \in ResolveDistributors(distributors, distributorIds)
                 THEN 1 ELSE 0)

\* C1 happens: search_all returned over every distributor of the table, one
\* task having raised and another having fallen back to the catalog.
C1_Witness ==
    /\ aggPc = "done"
    /\ Len(queried) = NumDistributors
    /\ \E i, j \in DOMAIN output :
        /\ output[i].error # Null
        /\ output[j].error = Null
        /\ output[j].results = "catalog"

C3_DisabledNeverCalled ==
    \A d \in Distributors :
        ~distributors[d].ordering_enabled => (calls[d] = {} /\ tasks[d].pc = "none")

\* C3 happens: search_all was asked for an active distributor with
\* ordering_enabled = false by id, along with another one, and returned
\* having searched the other.
C3_Witness ==
    /\ aggPc = "done"
    /\ distributorIds.given
    /\ \E d \in Distributors :
        /\ d \in distributorIds.ids
        /\ distributors[d].is_active
        /\ ~distributors[d].ordering_enabled
        /\ \E e \in Distributors \ {d} :
            /\ e \in distributorIds.ids
            /\ "search" \in calls[e]

\* The distributor ids of the entries of the output, in its order
OutputIds == [i \in 1 .. Len(output) |-> output[i].distributor_id]

C18_UnavailableFallsBack ==
    aggPc = "done" =>
        \A i \in DOMAIN output :
            LET t == tasks[output[i].distributor_id]
            IN  ((t.raised # "none" \/ t.live \in {"transport_failure", "non_success"})
                    /\ t.fallback # "raised") =>
                        output[i].results = "catalog"

\* ------------------------------- SpecRace: two callers save at the same time
\* Each caller has its own adapter object and its own database session (a
\* request of another worker, or a route run in the thread pool), so that the
\* query of _load_session and the commit of _save_session of one caller can
\* have the other caller's between them.

\* The row an earlier login left
EarlierRow ==
    [id |-> <<"earlier", 0>>,
     row |-> SaveSession(AbsentSession, SaveArgs("ck_old", Null, "tok_old", 0), 0)]

\* What a caller's authenticate() saves: its own cookies and its own token
WriterArgs(c) ==
    {SaveArgs(IF c = "a" THEN "ck_a" ELSE "ck_b", Null,
              IF c = "a" THEN "tok_a" ELSE "tok_b", e) :
        e \in {NullTime, DAY_MINUTES}}

\* The query of _load_session: .first() of the rows of the distributor, in no
\* stated order
FirstRow(t) == IF t = {} THEN {NoRow} ELSE {r.id : r \in t}

RaceInit ==
    /\ now = 0
    /\ store = AbsentSession
    /\ platform = "mock"
    /\ lastSave = NoSave
    /\ lastEnsure = NoEnsure
    /\ lastAuth = NoAuth
    /\ ensureStreak = 0
    /\ FarmAtRest /\ OrderAtRest /\ AggAtRest /\ RestAtRest
    /\ table \in {{}, {EarlierRow}}
    /\ racePc = [c \in Callers |-> "idle"]
    /\ raceCached = [c \in Callers |-> NoRow]
    /\ raceArgs = [c \in Callers |-> SaveArgs(Null, Null, Null, NullTime)]
    /\ raceSaves = [c \in Callers |-> 0]

\* _save_session of caller c up to its _load_session: the row the adapter
\* holds, or the answer of the query when it holds none
RaceSaveLoad(c) ==
    /\ racePc[c] = "idle"
    /\ raceSaves[c] < MaxRaceSaves
    /\ \E a \in WriterArgs(c) : raceArgs' = [raceArgs EXCEPT ![c] = a]
    /\ IF raceCached[c] # NoRow
       THEN raceCached' = raceCached
       ELSE \E id \in FirstRow(table) : raceCached' = [raceCached EXCEPT ![c] = id]
    /\ racePc' = [racePc EXCEPT ![c] = "loaded"]
    /\ UNCHANGED <<table, raceSaves>>
    /\ UNCHANGED <<sessionVars, farmVars, orderVars, aggVars, restVars>>

\* _save_session of caller c from there on: a new row is added when the load
\* found none, the fields given are assigned, and the commit writes the row
RaceSaveCommit(c) ==
    /\ racePc[c] = "loaded"
    /\ IF raceCached[c] = NoRow
       THEN LET id == <<c, raceSaves[c] + 1>>
            IN  /\ table' = table \cup
                        {[id |-> id,
                          row |-> SaveSession(AbsentSession, raceArgs[c], now)]}
                /\ raceCached' = [raceCached EXCEPT ![c] = id]
       ELSE /\ table' = {IF r.id = raceCached[c]
                         THEN [r EXCEPT !.row = SaveSession(r.row, raceArgs[c], now)]
                         ELSE r : r \in table}
            /\ raceCached' = raceCached
    /\ raceSaves' = [raceSaves EXCEPT ![c] = @ + 1]
    /\ racePc' = [racePc EXCEPT ![c] = "idle"]
    /\ UNCHANGED raceArgs
    /\ UNCHANGED <<sessionVars, farmVars, orderVars, aggVars, restVars>>

\* The next request of caller c gets a new adapter from get_distributor_client
RaceNewAdapter(c) ==
    /\ racePc[c] = "idle"
    /\ raceCached[c] # NoRow
    /\ raceCached' = [raceCached EXCEPT ![c] = NoRow]
    /\ UNCHANGED <<table, racePc, raceArgs, raceSaves>>
    /\ UNCHANGED <<sessionVars, farmVars, orderVars, aggVars, restVars>>

RaceNext ==
    \/ \E c \in Callers : RaceSaveLoad(c)
    \/ \E c \in Callers : RaceSaveCommit(c)
    \/ \E c \in Callers : RaceNewAdapter(c)

SpecRace == RaceInit /\ [][RaceNext]_vars

\* The fields of a row are those one writer wrote
WrittenByOne(r) ==
    \/ r.cookies = "ck_old" /\ r.auth_token = "tok_old"
    \/ r.cookies = "ck_a" /\ r.auth_token = "tok_a"
    \/ r.cookies = "ck_b" /\ r.auth_token = "tok_b"

\* C16: whatever the interleaving of the _save_session calls of two callers
\* for one distributor, the table holds at most one row for the distributor,
\* and the cookies and the token of that row were written by the same writer.
C16_OneUnmixedSession ==
    /\ Cardinality(table) <= 1
    /\ \A r \in table : WrittenByOne(r.row)

\* ------------------------------------------ SpecSearch: search(query, limit)

\* The largest limit asked for and the most items an answer carries
MaxLimit == 6
MaxItems == 7

\* MockDistributorClient.search builds min(5, limit) results
MOCK_RESULTS == 5
\* MetroWholesaleClient.search asks for "pageSize": min(limit, 50)
METRO_PAGE_SIZE == 50

Min(a, b) == IF a < b THEN a ELSE b

\* n items, in the platform's ranking
Items(n) == [i \in 1..n |-> i]

\* What the platform answers to the search request: a success answer carrying
\* as many items as the platform chose to send, an answer with another status,
\* or no answer (the transport failed).
SearchResponses ==
    {[kind |-> "items", items |-> Items(n)] : n \in 0..MaxItems}
        \cup {[kind |-> k, items |-> <<>>] : k \in {"non_success", "exception"}}

SearchReturn(asked, results) ==
    [called |-> TRUE, asked |-> asked, raised |-> FALSE, results |-> results]

SearchRaise(asked) ==
    [called |-> TRUE, asked |-> asked, raised |-> TRUE, results |-> <<>>]

\* _parse_search_response of FarmDirectClient and of GreenMarketClient, and
\* the loop over products of ValleyFoodsClient.search: one result per item of
\* the answer
ParseSearchResponse(items) == [i \in 1..Len(items) |-> items[i]]

\* MetroWholesaleClient._parse_search_response: for item in items[:limit]
MetroParseSearchResponse(items, limit) ==
    SubSeq(items, 1, Min(limit, Len(items)))

MockSearch(limit) == SearchReturn(0, Items(Min(MOCK_RESULTS, limit)))

\* FarmDirectClient.search, on the answer it ends with
FarmSearch(limit, response) ==
    IF response.kind = "items"
    THEN SearchReturn(limit, ParseSearchResponse(response.items))
    ELSE SearchReturn(limit, <<>>)

GreenSearch(limit, response) ==
    IF response.kind = "items"
    THEN SearchReturn(limit, ParseSearchResponse(response.items))
    ELSE SearchReturn(limit, <<>>)

MetroSearch(limit, response) ==
    IF response.kind = "items"
    THEN SearchReturn(Min(limit, METRO_PAGE_SIZE),
                      MetroParseSearchResponse(response.items, limit))
    ELSE SearchReturn(Min(limit, METRO_PAGE_SIZE), <<>>)

\* ValleyFoodsClient.search has no try block: what _api_request raises
\* (raise_for_status, the transport) leaves search
ValleySearch(limit, response) ==
    IF response.kind = "items"
    THEN SearchReturn(limit, ParseSearchResponse(response.items))
    ELSE SearchRaise(limit)

Search(p, limit, response) ==
    CASE p = "farmdirect"     -> FarmSearch(limit, response)
      [] p = "greenmarket"    -> GreenSearch(limit, response)
      [] p = "metrowholesale" -> MetroSearch(limit, response)
      [] p = "valleyfoods"    -> ValleySearch(limit, response)
      [] OTHER                -> MockSearch(limit)

SearchInit ==
    /\ SessionAtRest /\ FarmAtRest /\ OrderAtRest /\ AggAtRest /\ RaceAtRest
    /\ TaskAtRest /\ CartAtRest /\ PureAtRest
    /\ searchArgs \in [adapter : Platforms, limit : 0..MaxLimit,
                       response : SearchResponses]
    /\ searchResult = NoSearchResult

SearchCall ==
    /\ ~searchResult.called
    /\ searchResult' = Search(searchArgs.adapter, searchArgs.limit,
                              searchArgs.response)
    /\ UNCHANGED <<searchArgs, oldVars, taskVars, cartVars, normVars, costVars>>

SearchNext == SearchCall

SpecSearch == SearchInit /\ [][SearchNext]_vars

\* C21: search(query, limit) returns at most limit results, whatever the
\* adapter and whatever the platform answered, and when the platform reports
\* zero matches it returns an empty list and raises nothing.
C21_AtMostLimitResults ==
    searchResult.called =>
        /\ ~searchResult.raised => Len(searchResult.results) <= searchArgs.limit
        /\ (searchArgs.response.kind = "items" /\ searchArgs.response.items = <<>>)
               => (~searchResult.raised /\ searchResult.results = <<>>)

\* ------------------------- SpecTask: one _search_distributor task in detail

\* The latest time at which the task starts
MaxTaskTime == 2

\* How the search method of the adapter of a platform treats an answer
KindOf(p) == IF p = "valleyfoods" THEN "raises" ELSE "swallows"

BoolName(b) == IF b THEN "true" ELSE "false"

\* The outcomes of the authenticate() calls an ensure_authenticated made
AuthsOf(e) == IF e.authCalls = 1 THEN <<e.auth.ok>> ELSE <<>>

\* The cookies get_http_client gives a new HTTP client: those of the stored
\* session, none without a session or without cookies in it
JarOf(s) ==
    IF LoadSession(s).exists /\ s.cookies \notin {Null, "{}"}
    THEN s.cookies ELSE "{}"

\* What the search method of the adapter does before it sends its request, on
\* a new adapter (_http_client None, _last_activity 0): what it returned, the
\* outcomes of the authenticate() calls made, whether the HTTP client was
\* opened for a heartbeat and with which cookies, and whether an
\* authenticate() succeeded after that.
\*   GreenMarket, MetroWholesale: await self.ensure_authenticated()
\*   ValleyFoods: the same, in _api_request
\*   FarmDirect: _ensure_session_fresh, idle, so _heartbeat with its
\*               ensure_authenticated, and authenticate() when it failed
\*   Mock: nothing
EnsureOnlyGate(p, s, t) ==
    {[store |-> e.store, result |-> e.result, auths |-> AuthsOf(e),
      opens |-> FALSE, jar |-> "none", reauthed |-> FALSE] :
        e \in EnsureAuthenticated(p, s, t)}

SearchGate(p, s, t) ==
    IF p = "farmdirect"
    THEN UNION {UNION {
            IF HeartbeatResult(hb)
            THEN {[store |-> e.store, result |-> TRUE, auths |-> AuthsOf(e),
                   opens |-> TRUE, jar |-> JarOf(e.store), reauthed |-> FALSE]}
            ELSE {[store |-> a.store, result |-> a.ok,
                   auths |-> Append(AuthsOf(e), a.ok), opens |-> TRUE,
                   jar |-> JarOf(e.store), reauthed |-> a.ok] :
                     a \in AuthenticateFarm(e.store, t)} :
            hb \in HeartbeatAnswers} :
         e \in EnsureAuthenticated("farmdirect", s, t)}
    ELSE EnsureOnlyGate(p, s, t)

\* get_http_client: the client is made when there is none
GetHttpClient(client, log) ==
    IF client = "none" THEN [log EXCEPT !.opened = @ + 1] ELSE log

\* close(): closes the client when there is one
Close(client, log) ==
    IF client # "none"
    THEN [log EXCEPT !.closed = @ + 1, !.closeCalls = @ + 1]
    ELSE [log EXCEPT !.closeCalls = @ + 1]

TaskInit ==
    /\ now \in 0 .. MaxTaskTime
    /\ platform \in Platforms
    /\ store \in InitRows(platform)
    /\ lastSave = NoSave
    /\ lastEnsure = NoEnsure
    /\ lastAuth = NoAuth
    /\ ensureStreak = 0
    /\ FarmAtRest /\ OrderAtRest /\ AggAtRest /\ RaceAtRest /\ SearchAtRest /\ CartAtRest
    /\ PureAtRest
    /\ taskPc = "start"
    /\ taskClient = "none"
    /\ taskLog = NoTaskLog
    /\ taskRun = NoTask

\* client = get_distributor_client(self.db, distributor.id)
TaskGetClient ==
    /\ taskPc = "start"
    /\ \/ /\ taskPc' = "ensure"
          /\ UNCHANGED taskRun
       \/ /\ taskPc' = "except"
          /\ taskRun' = TryOutcome("get_client", "none")
    /\ UNCHANGED <<taskClient, taskLog, oldVars, searchVars, cartVars, normVars, costVars>>

\* await client.ensure_authenticated(): what it returns is not read
TaskEnsure ==
    /\ taskPc = "ensure"
    /\ \/ \E e \in EnsureAuthenticated(platform, store, now) :
            /\ store' = e.store
            /\ taskLog' = [taskLog EXCEPT !.ensure = BoolName(e.result),
                                          !.auths = @ \o AuthsOf(e)]
            /\ taskPc' = "search"
            /\ UNCHANGED taskRun
       \/ /\ taskPc' = "except"
          /\ taskRun' = TryOutcome("ensure_authenticated", "none")
          /\ UNCHANGED <<store, taskLog>>
    /\ UNCHANGED <<now, platform, lastSave, lastEnsure, lastAuth, ensureStreak>>
    /\ UNCHANGED <<taskClient, farmVars, orderVars, aggVars, raceVars, searchVars, cartVars, normVars, costVars>>

\* client.search(query, limit), up to its request: the adapter's own check,
\* whose result is not read either. The mock adapter builds its results.
TaskSearchGate ==
    /\ taskPc = "search"
    /\ IF platform = "mock"
       THEN /\ taskPc' = "close"
            /\ taskRun' = [NoTask EXCEPT !.live = "ok"]
            /\ UNCHANGED <<store, taskClient, taskLog>>
       ELSE \E g \in SearchGate(platform, store, now) :
            /\ store' = g.store
            /\ taskClient' = IF g.opens THEN g.jar ELSE taskClient
            /\ taskLog' =
                 LET log == IF g.opens THEN GetHttpClient(taskClient, taskLog)
                            ELSE taskLog
                 IN  [log EXCEPT !.gate = BoolName(g.result),
                                 !.auths = @ \o g.auths,
                                 !.reauthed = g.reauthed]
            /\ taskPc' = "request"
            /\ UNCHANGED taskRun
    /\ UNCHANGED <<now, platform, lastSave, lastEnsure, lastAuth, ensureStreak>>
    /\ UNCHANGED <<farmVars, orderVars, aggVars, raceVars, searchVars, cartVars, normVars, costVars>>

\* client = await self.get_http_client(), the search request and its answer
TaskSearchRequest ==
    /\ taskPc = "request"
    /\ \E live \in LiveAnswers :
        /\ taskClient' = IF taskClient = "none" THEN JarOf(store) ELSE taskClient
        /\ taskLog' =
             [GetHttpClient(taskClient, taskLog) EXCEPT
                 !.requests = @ + 1,
                 !.sentWith = taskClient',
                 !.storedAtSend = JarOf(store)]
        /\ IF AdapterSearch(KindOf(platform), live) = "raise"
           THEN /\ taskPc' = "except"
                /\ taskRun' = TryOutcome("search", live)
           ELSE /\ taskPc' = "close"
                /\ taskRun' = [NoTask EXCEPT !.live = live]
    /\ UNCHANGED <<oldVars, searchVars, cartVars, normVars, costVars>>

\* await client.close()
TaskClose ==
    /\ taskPc = "close"
    /\ taskLog' = Close(taskClient, taskLog)
    /\ taskClient' = "none"
    /\ taskPc' = "normalize"
    /\ UNCHANGED <<taskRun, oldVars, searchVars, cartVars, normVars, costVars>>

\* The loop over api_results with _normalize_result
TaskNormalize ==
    /\ taskPc = "normalize"
    /\ \/ /\ taskPc' = "done"
          /\ taskRun' = TryOutcome("none", taskRun.live)
       \/ /\ taskRun.live = "ok"
          /\ taskPc' = "except"
          /\ taskRun' = TryOutcome("normalize", taskRun.live)
    /\ UNCHANGED <<taskClient, taskLog, oldVars, searchVars, cartVars, normVars, costVars>>

\* except Exception: the catalog query
TaskExcept ==
    /\ taskPc = "except"
    /\ \E ok \in BOOLEAN : taskRun' = ExceptOutcome(taskRun, ok)
    /\ taskPc' = "done"
    /\ UNCHANGED <<taskClient, taskLog, oldVars, searchVars, cartVars, normVars, costVars>>

TaskNext ==
    \/ TaskGetClient
    \/ TaskEnsure
    \/ TaskSearchGate
    \/ TaskSearchRequest
    \/ TaskClose
    \/ TaskNormalize
    \/ TaskExcept

SpecTask == TaskInit /\ [][TaskNext]_vars

\* The entry search_all builds for the distributor of the finished task
TaskEntry == Entry(1, taskRun)

\* C22: when an authenticate() of the task's adapter has failed, the entry of
\* the distributor shows an error, and no authenticate() follows the failed
\* one within the task.
C22_AuthFailureReported ==
    taskPc = "done" =>
        \A i \in DOMAIN taskLog.auths :
            ~taskLog.auths[i] =>
                /\ TaskEntry.error # Null
                /\ i = Len(taskLog.auths)

\* C27: when the task finishes, the adapter it obtained has been closed (every
\* HTTP client its adapter opened is closed, none is left), whether the try
\* block ended or raised; and close() on an adapter without a client closes
\* nothing.
C27_AdapterClosedOnEveryPath ==
    /\ taskPc = "done" =>
          /\ taskClient = "none"
          /\ taskLog.closed = taskLog.opened
    /\ Close("none", taskLog).closed = taskLog.closed

\* C28: once an authenticate() of the adapter has succeeded after its HTTP
\* client was made, the requests the adapter sends carry the cookies of the
\* session saved then, not those the client was made with.
C28_RequestsCarrySavedSession ==
    (taskLog.requests > 0 /\ taskLog.reauthed)
        => taskLog.sentWith = taskLog.storedAtSend

\* C29: when ensure_authenticated() in the task, or the check the adapter's
\* search makes before its request, returned False, no search request is sent.
C29_NoRequestAfterFalse ==
    (taskLog.ensure = "false" \/ taskLog.gate = "false") => taskLog.requests = 0

\* ------------------------------------ SpecCart: the generic remove_from_cart

\* The largest quantity of a line of the cart
MaxQuantity == 2

Carts == [Skus -> 0 .. MaxQuantity]

\* The SKUs a cart has a line for
Lines(cart) == {k \in Skus : cart[k] > 0}

\* get_cart() of the adapter: the lines the platform holds; an empty cart from
\* the mock adapter and when the read failed
GetCartOf(p, cart, reading) ==
    IF p = "mock" \/ reading # "ok" THEN EmptyCart ELSE cart

\* clear_cart() of the adapter on the cart the platform holds: what it returns
\* and the cart it leaves.
\*   FarmDirect, GreenMarket: "not fully implemented", False when the cart has
\*                            items, nothing removed
\*   MetroWholesale, ValleyFoods: one remove request for every line read
\*   Mock: True
ClearCartOf(p, cart, reading, removal) ==
    LET read == GetCartOf(p, cart, reading)
    IN  CASE p = "mock" -> [result |-> TRUE, cart |-> cart]
          [] Lines(read) = {} -> [result |-> TRUE, cart |-> cart]
          [] p \in {"farmdirect", "greenmarket"} -> [result |-> FALSE, cart |-> cart]
          [] OTHER -> IF removal = "ok"
                      THEN [result |-> TRUE, cart |-> EmptyCart]
                      ELSE [result |-> FALSE, cart |-> cart]

\* The platform after add_to_cart(k, quantity) for every k of keep, quantity
\* that of the line read: an accepted add raises the quantity of the line
AddAllToCart(cart, keep, read, adding) ==
    [k \in Skus |->
        IF k \in keep /\ adding = "ok" THEN cart[k] + read[k] ELSE cart[k]]

\* DistributorApiClient.remove_from_cart(sku): read the cart, keep the other
\* lines, clear, add the kept lines again; True unless no line was dropped
RemoveFromCart(p, cart, sku, reading, removal, adding) ==
    LET read == GetCartOf(p, cart, reading)
        keep == Lines(read) \ {sku}
        cleared == ClearCartOf(p, cart, reading, removal)
    IN  IF keep = Lines(read)
        THEN [called |-> TRUE, result |-> FALSE, cart |-> cart, clears |-> 0,
              adds |-> 0]
        ELSE [called |-> TRUE, result |-> TRUE,
              cart |-> AddAllToCart(cleared.cart, keep, read, adding),
              clears |-> 1, adds |-> Cardinality(keep)]

CartInit ==
    /\ SessionAtRest /\ FarmAtRest /\ OrderAtRest /\ AggAtRest /\ RaceAtRest
    /\ SearchAtRest /\ TaskAtRest /\ PureAtRest
    /\ cartArgs \in [adapter : Platforms, cart : Carts, sku : Skus,
                     reading : {"ok", "failed"}, removal : RemoveAnswers,
                     adding : {"ok", "rejected"}]
    /\ cartResult = NoCartResult

RemoveFromCartCall ==
    /\ ~cartResult.called
    /\ cartResult' = RemoveFromCart(cartArgs.adapter, cartArgs.cart, cartArgs.sku,
                                    cartArgs.reading, cartArgs.removal,
                                    cartArgs.adding)
    /\ UNCHANGED <<cartArgs, oldVars, searchVars, taskVars, normVars, costVars>>

CartNext == RemoveFromCartCall

SpecCart == CartInit /\ [][CartNext]_vars

\* C23: remove_from_cart(sku) on a cart without a line for sku returns False
\* and calls neither clear_cart nor add_to_cart; when it returns True, the
\* cart the platform holds has no line for sku and every other line has the
\* quantity it had before.
C23_RemoveKeepsOtherLines ==
    cartResult.called =>
        /\ cartArgs.cart[cartArgs.sku] = 0 =>
              /\ ~cartResult.result
              /\ cartResult.clears = 0
              /\ cartResult.adds = 0
        /\ cartResult.result =>
              /\ cartResult.cart[cartArgs.sku] = 0
              /\ \A k \in Skus \ {cartArgs.sku} :
                    cartResult.cart[k] = cartArgs.cart[k]

\* --------------------------------------- SpecNormalize: _normalize_result

\* The largest pack count, unit size and price of a SearchResult
MaxPack == 2
MaxPrice == 3

\* WEIGHT_TO_GRAMS["kg"] and VOLUME_TO_ML["l"]
GRAMS_PER_KG == 1000
ML_PER_L == 1000

\* The units of UNIT_PATTERN whose factor is a whole number
PackUnits == {"G", "KG", "ML", "L"}

\* pack_size of a SearchResult:
\*   none     None
\*   empty    ""
\*   words    a text no pattern matches ("CASE")
\*   number   a value that is not a text (a JSON number)
\*   pack     "<count>/<size><unit>", as in "36/1LB"
\*   count    "<count>CT"
PackSizes ==
    {[text |-> k, count |-> 0, size |-> 0, unit |-> "none"] :
        k \in {"none", "empty", "words", "number"}}
    \cup {[text |-> "pack", count |-> c, size |-> q, unit |-> u] :
            c \in 1 .. MaxPack, q \in 1 .. MaxPack, u \in PackUnits}
    \cup {[text |-> "count", count |-> c, size |-> 1, unit |-> "each"] :
            c \in 1 .. MaxPack}

\* parse_pack_description returned None
NoPackInfo ==
    [exists |-> FALSE, raised |-> FALSE, pack_quantity |-> 0,
     unit_quantity |-> 0, unit |-> "none", total_base_units |-> 0,
     base_unit |-> "none"]

\* normalize_unit and the lookup in WEIGHT_TO_GRAMS or VOLUME_TO_ML
ToBaseFactor(unit) ==
    CASE unit = "KG" -> GRAMS_PER_KG
      [] unit = "L"  -> ML_PER_L
      [] OTHER       -> 1

BaseUnitOf(unit) ==
    CASE unit \in {"G", "KG"} -> "g"
      [] unit \in {"ML", "L"} -> "ml"
      [] OTHER                -> "each"

\* parse_pack_description(description): a PackInfo, None when no pattern
\* matches, and an exception (description.upper()) when it is not a text
ParsePackDescription(p) ==
    CASE p.text = "number" -> [NoPackInfo EXCEPT !.raised = TRUE]
      [] p.text \in {"pack", "count"} ->
            [exists |-> TRUE, raised |-> FALSE, pack_quantity |-> p.count,
             unit_quantity |-> p.size, unit |-> p.unit,
             total_base_units |-> p.count * p.size * ToBaseFactor(p.unit),
             base_unit |-> BaseUnitOf(p.unit)]
      [] OTHER -> NoPackInfo

\* What an instance of PackInfo answers to: the attributes __init__ sets and
\* the property total_quantity
PackInfoAttributes ==
    {"pack_quantity", "unit_quantity", "unit", "total_base_units", "base_unit",
     "total_quantity"}

\* The try block around pack_info.get("total_grams") or
\* pack_info.get("total_ml"): PackInfo has no get, the AttributeError is
\* passed over and the price stays None
PricePerBaseUnit(price_cents, pack_info) ==
    IF "get" \in PackInfoAttributes /\ pack_info.total_base_units > 0
    THEN price_cents \div pack_info.total_base_units
    ELSE NoPrice

\* SearchAggregator._normalize_result, its pack and price part
NormalizeResult(pack_size, price_cents) ==
    LET parsed == IF pack_size.text \in {"none", "empty"}
                  THEN NoPackInfo
                  ELSE ParsePackDescription(pack_size)
        pack_info == IF parsed.raised THEN NoPackInfo ELSE parsed
    IN  [called |-> TRUE, raised |-> FALSE, parsed |-> pack_info.exists,
         price_per_base_unit_cents |->
            IF price_cents # NoPrice /\ price_cents # 0 /\ pack_info.exists
            THEN PricePerBaseUnit(price_cents, pack_info)
            ELSE NoPrice]

NormInit ==
    /\ SessionAtRest /\ FarmAtRest /\ OrderAtRest /\ AggAtRest /\ RaceAtRest
    /\ SearchAtRest /\ TaskAtRest /\ CartAtRest /\ CostAtRest
    /\ normArgs \in [pack_size : PackSizes,
                     price_cents : {NoPrice} \cup (0 .. MaxPrice)]
    /\ normResult = NoNormResult

NormalizeCall ==
    /\ ~normResult.called
    /\ normResult' = NormalizeResult(normArgs.pack_size, normArgs.price_cents)
    /\ UNCHANGED <<normArgs, oldVars, searchVars, taskVars, cartVars, costVars>>

NormNext == NormalizeCall

SpecNormalize == NormInit /\ [][NormNext]_vars

\* A pack size parse_pack_description makes a PackInfo of
Parseable(p) == ParsePackDescription(p).exists

\* C24: _normalize_result gives a price per base unit that is not None for
\* every SearchResult whose pack size is parseable and whose price is
\* present, and gives None without raising when the pack size is not
\* parseable.
C24_ParseableGetsBasePrice ==
    normResult.called =>
        /\ (Parseable(normArgs.pack_size) /\ normArgs.price_cents # NoPrice)
              => normResult.price_per_base_unit_cents # NoPrice
        /\ ~Parseable(normArgs.pack_size)
              => (normResult.price_per_base_unit_cents = NoPrice
                  /\ ~normResult.raised)

\* ------------------------------------------- SpecCost: the cost calculator

\* The nested calls the interpreter allows before it raises RecursionError
MaxCallDepth == 8

\* The order in which the queries return the rows
RecipeOrder == <<"r1", "r2">>

\* The ingredients: the raw one, and for every recipe the component
\* ingredient whose source_recipe_id it is, named after it
IngredientOrder == <<"raw", "r1", "r2">>

\* The databases: the components (sub-recipes) and the ingredients of every
\* recipe, and whether the raw ingredient has a distributor price
CostGraphs ==
    [comp : [Recipes -> SUBSET Recipes],
     uses : [Recipes -> SUBSET ({"raw"} \cup Recipes)],
     rawPriced : BOOLEAN]

RecipeRaise(kind) == [end |-> kind, zero |-> TRUE, unpriced |-> FALSE]

PriceRaise(kind) == [end |-> kind, priced |-> FALSE, positive |-> FALSE]

\* (None, None)
Unpriced == [end |-> "return", priced |-> FALSE, positive |-> FALSE]

\* The first of a sequence of outcomes that is an exception; 0 when none is
FirstRaised(outs) ==
    LET raised == {i \in DOMAIN outs : outs[i].end # "return"}
    IN  IF raised = {} THEN 0
        ELSE CHOOSE i \in raised : \A j \in raised : i <= j

RECURSIVE CalculateRecipeCost(_, _, _, _)
RECURSIVE GetIngredientBestPrice(_, _, _, _)

\* calculate_recipe_cost(db, recipe_id, ..., _visited_recipes) as nested call
\* number depth: how it ends, whether the total is 0 and whether an
\* ingredient is unpriced. The ingredients are priced first, with no set
\* handed to get_ingredient_best_price; then the components, each with a copy
\* of the visited set.
CalculateRecipeCost(g, r, visited, depth) ==
    IF depth > MaxCallDepth THEN RecipeRaise("RecursionError")
    ELSE IF r \in visited THEN RecipeRaise("ValueError")
    ELSE
      LET Used(k) == k \in g.uses[r]
          Comp(c) == c \in g.comp[r]
          used == SelectSeq(IngredientOrder, Used)
          comps == SelectSeq(RecipeOrder, Comp)
          ing == [i \in DOMAIN used |->
                    GetIngredientBestPrice(g, used[i], {}, depth + 1)]
          sub == [i \in DOMAIN comps |->
                    CalculateRecipeCost(g, comps[i], visited \cup {r}, depth + 1)]
      IN  IF FirstRaised(ing) # 0 THEN RecipeRaise(ing[FirstRaised(ing)].end)
          ELSE IF FirstRaised(sub) # 0 THEN RecipeRaise(sub[FirstRaised(sub)].end)
          ELSE [end |-> "return",
                zero |-> /\ \A i \in DOMAIN ing : ~ing[i].positive
                         /\ \A i \in DOMAIN sub : sub[i].zero,
                unpriced |-> \/ \E i \in DOMAIN ing : ~ing[i].priced
                             \/ \E i \in DOMAIN sub : sub[i].unpriced]

\* get_ingredient_best_price(db, ingredient_id, ..., _calculating_recipes)
\* with _get_component_price: the distributor price of the raw ingredient;
\* for a component ingredient the cost of its source recipe, calculated with
\* _visited_recipes None, a ValueError of it giving (None, None)
GetIngredientBestPrice(g, k, calculating, depth) ==
    IF depth > MaxCallDepth THEN PriceRaise("RecursionError")
    ELSE IF k = "raw"
    THEN [end |-> "return", priced |-> g.rawPriced, positive |-> g.rawPriced]
    ELSE IF k \in calculating THEN Unpriced
    ELSE
      LET cost == CalculateRecipeCost(g, k, {}, depth + 1)
      IN  CASE cost.end = "RecursionError" -> PriceRaise("RecursionError")
            [] cost.end = "ValueError" -> Unpriced
            [] cost.zero /\ cost.unpriced -> Unpriced
            [] OTHER -> [end |-> "return", priced |-> TRUE,
                         positive |-> ~cost.zero]

CostCalls == {"calculate_recipe_cost", "get_ingredient_best_price"}

CostInit ==
    /\ SessionAtRest /\ FarmAtRest /\ OrderAtRest /\ AggAtRest /\ RaceAtRest
    /\ SearchAtRest /\ TaskAtRest /\ CartAtRest /\ NormAtRest
    /\ \E g \in CostGraphs, c \in CostCalls, r \in Recipes :
          costArgs = [comp |-> g.comp, uses |-> g.uses,
                      rawPriced |-> g.rawPriced, call |-> c, root |-> r]
    /\ costResult = NoCostResult

\* calculate_recipe_cost(db, root)
CalculateRecipeCostCall ==
    /\ ~costResult.called
    /\ costArgs.call = "calculate_recipe_cost"
    /\ LET cost == CalculateRecipeCost(costArgs, costArgs.root, {}, 1)
       IN  costResult' = [called |-> TRUE, end |-> cost.end,
                          priced |-> cost.end = "return" /\ ~cost.unpriced]
    /\ UNCHANGED <<costArgs, oldVars, searchVars, taskVars, cartVars, normVars>>

\* get_ingredient_best_price(db, the component ingredient of root)
GetIngredientBestPriceCall ==
    /\ ~costResult.called
    /\ costArgs.call = "get_ingredient_best_price"
    /\ LET price == GetIngredientBestPrice(costArgs, costArgs.root, {}, 1)
       IN  costResult' = [called |-> TRUE, end |-> price.end,
                          priced |-> price.priced]
    /\ UNCHANGED <<costArgs, oldVars, searchVars, taskVars, cartVars, normVars>>

CostNext ==
    \/ CalculateRecipeCostCall
    \/ GetIngredientBestPriceCall

SpecCost == CostInit /\ [][CostNext]_vars

\* The recipes reached from those of S along edges
RECURSIVE ReachBy(_, _)
ReachBy(edges, S) ==
    LET T == S \cup UNION {edges[r] : r \in S}
    IN  IF T = S THEN S ELSE ReachBy(edges, T)

OnCycle(edges, r) == r \in ReachBy(edges, edges[r])

\* A cycle of sub-recipe components can be reached from the recipe
ComponentCycleFrom(r) ==
    \E c \in ReachBy(costArgs.comp, {r}) : OnCycle(costArgs.comp, c)

\* Recipe r uses the component ingredient whose source recipe is k
SourceEdges == [r \in Recipes |-> costArgs.uses[r] \cap Recipes]

\* The component ingredient of r is on a cycle through source recipes
CyclicIngredient(r) == OnCycle(SourceEdges, r)

\* C25: calculate_recipe_cost raises ValueError whenever a cycle of
\* sub-recipe components can be reached from the recipe, a recipe that is its
\* own component included.
C25_ComponentCycleRaisesValueError ==
    (costResult.called /\ costArgs.call = "calculate_recipe_cost"
        /\ ComponentCycleFrom(costArgs.root))
    => costResult.end = "ValueError"

\* C26: when component ingredients form a cycle through their source
\* recipes, get_ingredient_best_price and calculate_recipe_cost end without
\* exhausting the stack, and get_ingredient_best_price reports the cyclic
\* ingredient as unpriced.
C26_IngredientCycleStops ==
    costResult.called =>
        /\ (\E k \in ReachBy(SourceEdges, {costArgs.root}) : CyclicIngredient(k))
              => costResult.end # "RecursionError"
        /\ (costArgs.call = "get_ingredient_best_price"
              /\ CyclicIngredient(costArgs.root))
              => (costResult.end = "return" /\ ~costResult.priced)

\* ------------------------ SpecSession: the session right after authenticate

\* is_expired read a moment after time t: utcnow() is then later than t by
\* less than a time unit, and later than an expires_at that is t itself
IsExpiredRightAfter(s, t) ==
    IF s.expires_at = NullTime THEN FALSE ELSE t >= s.expires_at

\* ensure_authenticated awaited right after time t
EnsureAuthenticatedRightAfter(p, s, t) ==
    LET session == LoadSession(s)
    IN  IF session.exists /\ ~IsExpiredRightAfter(session, t)
        THEN {EnsureResult(TRUE, s, 0, NoAuthOutcome)}
        ELSE {EnsureResult(a.ok, a.store, 1, a) : a \in Authenticate(p, s, t)}

\* C30: right after authenticate() has returned True, on any adapter, the
\* stored session is not expired: an ensure_authenticated() that follows
\* without delay makes no authenticate() call.
C30_FreshSessionNotExpired ==
    (lastAuth.called /\ lastAuth.ok /\ lastAuth.at = now) =>
        \A r \in EnsureAuthenticatedRightAfter(platform, store, now) :
            r.authCalls = 0

====
